---- MODULE Spec2Model ----
(***************************************************************************)
(* Verification model of the don-crawler crawl orchestration: the          *)
(* publisher fan-out / worker fan-in pipeline with its per-repository      *)
(* locks, the GitHub App token provider, the GitLab rate-limit retry loop  *)
(* and the rate-limit header parser.                                       *)
(***************************************************************************)
EXTENDS Integers, Sequences, FiniteSets, TLC

(***************************************************************************)
(* Bounds of the model.                                                    *)
(***************************************************************************)
\* number of publishers handed to CrawlPublishers
NumPublishers == 2
\* repositories a single ScanPublisher call discovers at most
MaxReposPerPublisher == 2
\* capacity of the shared channel (channelSize = 1000 in NewCrawler, scaled)
ChannelSize == 1
\* workerCount of crawl(): ceil(NumCPU * 0.7), at least 1
WorkerCount == 2

Publishers == 1..NumPublishers
Workers == 1..WorkerCount
NoWorker == 0

(***************************************************************************)
(* Repository values.  Name is the full name split at "/", so that nested  *)
(* namespaces are visible to repoLockKey and SplitFullName.                *)
(***************************************************************************)
RepoHosts == {"gitlab.com"}
RepoNames == { <<"group", "a">>, <<"group", "subgroup", "a">>, <<"group", "subgroup", "b">> }
\* the repositories the provider lists for a publisher: group/subgroup/a is
\* reachable through both publishers (two discovery paths, one repository)
PublisherRepoNames(p) ==
    IF p % 2 = 1 THEN { <<"group", "a">>, <<"group", "subgroup", "a">> }
    ELSE { <<"group", "subgroup", "a">>, <<"group", "subgroup", "b">> }
RepoIds == Publishers \X (1..MaxReposPerPublisher)
NoRepo == [id |-> <<0, 0>>, host |-> "", name |-> <<>>]

Repository(p, n, h, nm) == [id |-> <<p, n>>, host |-> h, name |-> nm]

\* strings.Join(parts, "/") kept as the sequence of segments
RECURSIVE JoinSlash(_)
JoinSlash(parts) ==
    IF Len(parts) = 0 THEN <<>>
    ELSE IF Len(parts) = 1 THEN <<parts[1]>>
    ELSE <<parts[1], "/">> \o JoinSlash(Tail(parts))

\* repoLockKey: host, or host/name, or host/parts[0]/parts[1]
repoLockKey(repository) ==
    IF Len(repository.name) = 0 THEN <<repository.host>>
    ELSE IF Len(repository.name) < 2
         THEN <<repository.host, "/">> \o JoinSlash(repository.name)
         ELSE <<repository.host, "/", repository.name[1], "/", repository.name[2]>>

\* the mirror directory of CloneRepository below DATADIR/repos, without the
\* final "gitClone": hostname, vendor and repo of common.SplitFullName(name)
MirrorPath(repository) ==
    LET parts == repository.name
        vendor == SubSeq(parts, 1, Len(parts) - 1)
        repo == IF Len(parts) = 0 THEN <<>> ELSE <<parts[Len(parts)]>>
    IN  <<repository.host>> \o vendor \o repo

LockKeys == { repoLockKey(Repository(0, 0, h, nm)) : h \in RepoHosts, nm \in RepoNames }

VARIABLES
    inlineScan,       \* TRUE: CrawlPublishers calls ScanPublisher itself; FALSE: go ScanPublisher
    DryRun,           \* Crawler.DryRun
    mainPc,           \* position of the goroutine running CrawlPublishers / crawl
    nextPub,          \* index of the range loop over publishers
    discovered,       \* per publisher: repositories its scan finds at the provider
    pubPc,            \* per publisher: "idle", "running", "done"
    emitted,          \* per publisher: repositories sent so far
    orgState,         \* per publisher: the organization scan, where it is followed:
                      \* "none", "scanning", "unsupported", "failed", "returned"
    orgEmitted,       \* per publisher: repositories sent by the organization scan
    publishersWg,     \* counter of Crawler.publishersWg
    closerPc,         \* the closing goroutine: "none", "waiting", "done"
    repositories,     \* buffered content of Crawler.repositories
    closeCount,       \* number of close(c.repositories) executed
    forwardRepo,      \* the loop variable repo of crawl()'s forwarding loop
    reposChanClosed,  \* close(reposChan) executed
    repositoriesWg,   \* counter of Crawler.repositoriesWg
    wPc,              \* per worker: position inside ProcessRepositories / ProcessRepo
    wRepo,            \* per worker: the repository being processed
    wCloneErr,        \* per worker: CloneRepository returned an error
    muHolder,         \* holder of repoLockMap.mu
    locks,            \* keys present in repoLockMap.locks
    lockOwner,        \* per key: worker holding the per-repository mutex
    processedCount,   \* per repository id: calls of ProcessRepo with it
    postCount,        \* per repository id: PostRepository calls made for it
    \* --- TokenProvider (internal/githubapp) ---
    tokNow,           \* the clock read by time.Until / time.Now, in minutes
    accessTok,        \* TokenProvider.accessTok; NoToken is the empty string
    expiresAt,        \* TokenProvider.expiresAt
    tokMu,            \* holder of TokenProvider.mu
    cPc,              \* per caller: position inside Token / refreshToken
    cResult,          \* per caller: what Token returned
    cStartedEmpty,    \* per caller: no token was cached when it called Token
    exchanges,        \* token-exchange requests sent to the provider
    \* --- gitlabCallWithRateLimitRetry (scanner) ---
    gitlabAPILimiter, \* slots of the gitlabAPILimiter channel in use
    gCtx,             \* per call: state of its ctx ("active" or the ctx.Err())
    gPc,              \* per call: position inside gitlabCallWithRateLimitRetry
    gAttempt,         \* per call: the loop variable attempt
    gTimer,           \* per call: the time.After(wait) timer of the current wait
    gErr,             \* per call: the error value returned
    gCalls,           \* per call: invocations of the wrapped call
    gRateLimited,     \* per call: invocations answered with a rate limit
    gCtxAtStart,      \* per call: state of ctx when the retry loop was entered
    gCancelledInWait  \* per call: ctx ended while the loop was in a backoff wait

cfgVars == <<inlineScan, DryRun, discovered>>
pubVars == <<pubPc, emitted, orgState, orgEmitted, publishersWg>>
chanVars == <<repositories, closeCount, closerPc>>
fwdVars == <<forwardRepo, reposChanClosed>>
workerVars == <<wPc, wRepo, wCloneErr, repositoriesWg>>
lockVars == <<muHolder, locks, lockOwner>>
histVars == <<processedCount, postCount>>

crawlVars == <<cfgVars, mainPc, nextPub, pubVars, chanVars, fwdVars, workerVars,
               lockVars, histVars>>

tokVars == <<tokNow, accessTok, expiresAt, tokMu, cPc, cResult, cStartedEmpty,
             exchanges>>

retryVars == <<gitlabAPILimiter, gCtx, gPc, gAttempt, gTimer, gErr, gCalls,
               gRateLimited, gCtxAtStart, gCancelledInWait>>

VARIABLES
    hNow,             \* time.Now() as read by RateLimitResetFromHeaders (Unix seconds)
    headers,          \* the http.Header: a sequence of [key, line] header lines
    hPc,              \* "received" before the parse, "parsed" after it
    hReset,           \* the returned time.Time (Unix seconds, ZeroTime for time.Time{})
    hOk               \* the returned bool

hdrVars == <<hNow, headers, hPc, hReset, hOk>>

VARIABLES
    prPc,             \* position inside one ProcessRepo call followed through its data
    prRepository,     \* the local copy of the repository ProcessRepo works on
    prFetch,          \* what httpclient.GetURL answered for FileRawURL
    prHasPubliccode,  \* the local hasPubliccode
    prCloneErr,       \* the local cloneErr
    prClones,         \* git.CloneRepository calls made
    prPosts,          \* the PostRepository calls made, with their arguments
    prGitLast,        \* what git.LastCommitTime answers for the local clone
    prApiLast,        \* what the scanner's LastCommitTimeFromAPI answers
    prApiCalls        \* lastActivityFromAPI calls made

prVars == <<prPc, prRepository, prFetch, prHasPubliccode, prCloneErr, prClones, prPosts,
            prGitLast, prApiLast, prApiCalls>>

VARIABLES
    sPc               \* per goroutine calling gitlabWithAPISlot: "idle", "acquire", "inCall"

slotVars == <<sPc>>

VARIABLES
    fullName,         \* the argument of SplitFullName
    sfPc,             \* "called" before SplitFullName returns, "returned" after it
    sfVendor,         \* the first string returned
    sfRepo            \* the second string returned

sfVars == <<fullName, sfPc, sfVendor, sfRepo>>

VARIABLES
    hostname,         \* the argument hostname of withAuthToken
    envGitLabToken,   \* os.Getenv("GITLAB_TOKEN")
    ghProvider,       \* what githubapp.DefaultProvider and provider.Token answer
    waPc,             \* "called" before withAuthToken returns, "returned" after it
    waAuth,           \* the transport.AuthMethod returned
    waErr             \* the error returned

authVars == <<hostname, envGitLabToken, ghProvider, waPc, waAuth, waErr>>

VARIABLES
    tRepository,      \* the argument of titleFromRepositoryName: Name and CanonicalURL
    tPc,              \* "called" before titleFromRepositoryName returns, "returned" after
    tTitle            \* the string returned

titleVars == <<tRepository, tPc, tTitle>>

VARIABLES
    rlResp,           \* the *gitlab.Response of the failed call
    rlErr,            \* the error of the failed call
    rlAttempt,        \* the loop variable attempt when the call failed
    rlPc,             \* "failed", "classified", then "returnErr", "returnRateLimitError" or "wait"
    rlReset,          \* the time.Time gitlabRateLimitReset returned
    rlOk              \* the bool gitlabRateLimitReset returned

resetVars == <<rlResp, rlErr, rlAttempt, rlPc, rlReset, rlOk>>

VARIABLES
    lcProvider,       \* the argument provider of lastCommitTimeWithRetry
    lcPc,             \* "fetch", "sleep" or "done"
    lcFetches,        \* calls of fetch() made
    lcRateLimited,    \* calls of fetch() that returned a RateLimitError
    lcSleeps,         \* time.Sleep(wait) calls made
    lcLastErr,        \* the error of the last fetch()
    lcErr             \* the error lastCommitTimeWithRetry returned

lcVars == <<lcProvider, lcPc, lcFetches, lcRateLimited, lcSleeps, lcLastErr, lcErr>>

VARIABLES
    srProvider,       \* the scanner whose ScanRepo is called
    srRepo,           \* what the provider reports about the repository
    srPc,             \* "get", "sleep", "contents" or "done"
    srCalls,          \* API calls ScanRepo made
    srRateLimited,    \* API calls answered with a rate limit, in a row
    srLookup,         \* the answer to the lookup of publiccode.yml
    srSent,           \* the Repository values sent to the channel
    srErr             \* the error ScanRepo returned

srVars == <<srProvider, srRepo, srPc, srCalls, srRateLimited, srLookup, srSent, srErr>>

VARIABLES
    sgIsOrg,          \* TRUE: the owner in the URL is a GitHub organization
    sgPages,          \* pages the owner's listing of repositories has
    sgOptPage,        \* opt.Page of ScanGroupOfRepos; 0: not set
    sgPc,             \* "list", "sleep" or "done"
    sgListCalls,      \* listing calls made (ListByOrg and List)
    sgFetched,        \* per page: times the page was fetched and its repositories scanned
    sgErr             \* the error ScanGroupOfRepos returned

sgVars == <<sgIsOrg, sgPages, sgOptPage, sgPc, sgListCalls, sgFetched, sgErr>>

VARIABLES
    mcRepo,           \* per caller: the repository cloneAndLogActivity is called with
    mcPc,             \* per caller: "lock", "enter", "clone", "fetch", "unlock", "done"
    mcLockOwner,      \* per lock key: the caller holding the per-repository mutex
    mirrorDirs,       \* the mirror directories that exist below DATADIR/repos
    mirrorsAtStart,   \* the mirror directories left by earlier runs
    mcResult,         \* per caller: what CloneRepository did
    cloneAttempts,    \* per mirror directory: git.PlainClone calls
    clonesDone        \* per mirror directory: git.PlainClone calls that succeeded

mcVars == <<mcRepo, mcPc, mcLockOwner, mirrorDirs, mirrorsAtStart, mcResult,
            cloneAttempts, clonesDone>>

VARIABLES
    readmeLines,      \* the lines of the README handed to descriptionFromReadme
    dfPc,             \* "called" before descriptionFromReadme runs, "returned" after
    dfDescription     \* the string returned

dfVars == <<readmeLines, dfPc, dfDescription>>

VARIABLES
    ghNow,            \* time.Now(), in ticks
    ghCommitReset,    \* githubCommitRateLimit.reset; ZeroTime for time.Time{}
    lwPc,             \* per worker: "idle", "issue" (past the check), "inFlight"
    lwEarly,          \* per worker: its ListCommits was sent before the recorded reset
    lwRecordedLater,  \* per worker: a reset was recorded after its check
    lwErr             \* per worker: the error its last lastCommitTimeFromAPI returned

ghVars == <<ghNow, ghCommitReset, lwPc, lwEarly, lwRecordedLater, lwErr>>

VARIABLES
    glParent,      \* the GitLab group tree: the parent of every subgroup
    glProjectOf,   \* the group each project lives in
    glBranch,      \* project.DefaultBranch of each project
    agpStack,      \* the active addGroupProjects calls, innermost last
    agpSent,       \* how often each project was sent on the repositories channel
    agpErr         \* the error the outermost addGroupProjects returned

glVars == <<glParent, glProjectOf, glBranch, agpStack, agpSent, agpErr>>

nonCrawlVars == <<tokVars, retryVars, hdrVars, prVars, slotVars, sfVars, authVars, titleVars, resetVars, lcVars, srVars, sgVars, mcVars, dfVars, ghVars, glVars>>
nonTokVars == <<crawlVars, retryVars, hdrVars, prVars, slotVars, sfVars, authVars, titleVars, resetVars, lcVars, srVars, sgVars, mcVars, dfVars, ghVars, glVars>>
nonRetryVars == <<crawlVars, tokVars, hdrVars, prVars, slotVars, sfVars, authVars, titleVars, resetVars, lcVars, srVars, sgVars, mcVars, dfVars, ghVars, glVars>>
nonHdrVars == <<crawlVars, tokVars, retryVars, prVars, slotVars, sfVars, authVars, titleVars, resetVars, lcVars, srVars, sgVars, mcVars, dfVars, ghVars, glVars>>
nonPrVars == <<crawlVars, tokVars, retryVars, hdrVars, slotVars, sfVars, authVars, titleVars, resetVars, lcVars, srVars, sgVars, mcVars, dfVars, ghVars, glVars>>
nonSlotVars == <<crawlVars, tokVars, hdrVars, prVars, gCtx, gPc, gAttempt, gTimer, gErr,
                 gCalls, gRateLimited, gCtxAtStart, gCancelledInWait, sfVars, authVars, titleVars, resetVars, lcVars, srVars, sgVars, mcVars, dfVars, ghVars, glVars>>
nonSfVars == <<crawlVars, tokVars, retryVars, hdrVars, prVars, slotVars, authVars, titleVars, resetVars, lcVars, srVars, sgVars, mcVars, dfVars, ghVars, glVars>>
nonAuthVars == <<crawlVars, tokVars, retryVars, hdrVars, prVars, slotVars, sfVars, titleVars, resetVars, lcVars, srVars, sgVars, mcVars, dfVars, ghVars, glVars>>
nonTitleVars == <<crawlVars, tokVars, retryVars, hdrVars, prVars, slotVars, sfVars, authVars, resetVars, lcVars, srVars, sgVars, mcVars, dfVars, ghVars, glVars>>
nonResetVars == <<crawlVars, tokVars, retryVars, hdrVars, prVars, slotVars, sfVars, authVars, titleVars, lcVars, srVars, sgVars, mcVars, dfVars, ghVars, glVars>>
nonLcVars == <<crawlVars, tokVars, retryVars, hdrVars, prVars, slotVars, sfVars, authVars, titleVars, resetVars, srVars, sgVars, mcVars, dfVars, ghVars, glVars>>
nonSrVars == <<crawlVars, tokVars, retryVars, hdrVars, prVars, slotVars, sfVars, authVars, titleVars, resetVars, lcVars, sgVars, mcVars, dfVars, ghVars, glVars>>
nonSgVars == <<crawlVars, tokVars, retryVars, hdrVars, prVars, slotVars, sfVars, authVars, titleVars, resetVars, lcVars, srVars, mcVars, dfVars, ghVars, glVars>>
nonMcVars == <<crawlVars, tokVars, retryVars, hdrVars, prVars, slotVars, sfVars, authVars, titleVars, resetVars, lcVars, srVars, sgVars, dfVars, ghVars, glVars>>
nonDfVars == <<crawlVars, tokVars, retryVars, hdrVars, prVars, slotVars, sfVars, authVars, titleVars, resetVars, lcVars, srVars, sgVars, mcVars, ghVars, glVars>>
nonGhVars == <<crawlVars, tokVars, retryVars, hdrVars, prVars, slotVars, sfVars, authVars, titleVars, resetVars, lcVars, srVars, sgVars, mcVars, dfVars, glVars>>
nonGlVars == <<crawlVars, tokVars, retryVars, hdrVars, prVars, slotVars, sfVars, authVars, titleVars, resetVars, lcVars, srVars, sgVars, mcVars, dfVars, ghVars>>

vars == <<crawlVars, tokVars, retryVars, hdrVars, prVars, slotVars, sfVars, authVars, titleVars, resetVars, lcVars, srVars, sgVars, mcVars, dfVars, ghVars, glVars>>

(***************************************************************************)
(* NewCrawler and the state before CrawlPublishers runs.                   *)
(***************************************************************************)
CrawlStart ==
    /\ mainPc = "scanLoop"
    /\ nextPub = 1
    /\ pubPc = [p \in Publishers |-> "idle"]
    /\ emitted = [p \in Publishers |-> 0]
    /\ orgState = [p \in Publishers |-> "none"]
    /\ orgEmitted = [p \in Publishers |-> 0]
    /\ publishersWg = 0
    /\ closerPc = "none"
    /\ repositories = <<>>
    /\ closeCount = 0
    /\ forwardRepo = NoRepo
    /\ reposChanClosed = FALSE
    /\ repositoriesWg = 0
    /\ wPc = [w \in Workers |-> "none"]
    /\ wRepo = [w \in Workers |-> NoRepo]
    /\ wCloneErr = [w \in Workers |-> FALSE]
    /\ muHolder = NoWorker
    /\ locks = {}
    /\ lockOwner = [k \in LockKeys |-> NoWorker]
    /\ processedCount = [r \in RepoIds |-> 0]
    /\ postCount = [r \in RepoIds |-> 0]

\* the inputs of a run: which CrawlPublishers is built, the dry-run flag and
\* what the providers list for each publisher
CrawlInit ==
    /\ inlineScan \in BOOLEAN
    /\ DryRun \in BOOLEAN
    /\ discovered \in [Publishers -> 0..MaxReposPerPublisher]
    /\ CrawlStart

\* the crawler when no crawl is run
CrawlParked ==
    /\ inlineScan = FALSE
    /\ DryRun = FALSE
    /\ discovered = [p \in Publishers |-> 0]
    /\ CrawlStart

(***************************************************************************)
(* CrawlPublishers: the range loop over publishers.                        *)
(***************************************************************************)
\* go c.ScanPublisher(publisher), after publishersWg.Add(1)
GoScanPublisher ==
    /\ mainPc = "scanLoop"
    /\ ~inlineScan
    /\ nextPub <= NumPublishers
    /\ publishersWg' = publishersWg + 1
    /\ pubPc' = [pubPc EXCEPT ![nextPub] = "running"]
    /\ nextPub' = nextPub + 1
    /\ UNCHANGED <<nonCrawlVars, cfgVars, mainPc, emitted, orgState, orgEmitted, chanVars,
                   fwdVars, workerVars, lockVars, histVars>>

\* c.ScanPublisher(publisher) called by the loop itself, after publishersWg.Add(1)
CallScanPublisher ==
    /\ mainPc = "scanLoop"
    /\ inlineScan
    /\ nextPub <= NumPublishers
    /\ publishersWg' = publishersWg + 1
    /\ pubPc' = [pubPc EXCEPT ![nextPub] = "running"]
    /\ mainPc' = "inScan"
    /\ UNCHANGED <<nonCrawlVars, cfgVars, nextPub, emitted, orgState, orgEmitted, chanVars,
                   fwdVars, workerVars, lockVars, histVars>>

\* the inline ScanPublisher call returns to the loop
ReturnScanPublisher ==
    /\ mainPc = "inScan"
    /\ pubPc[nextPub] = "done"
    /\ mainPc' = "scanLoop"
    /\ nextPub' = nextPub + 1
    /\ UNCHANGED <<nonCrawlVars, cfgVars, pubVars, chanVars, fwdVars, workerVars, lockVars,
                   histVars>>

(***************************************************************************)
(* ScanPublisher: the scanners send every discovered repository on the     *)
(* shared channel; the deferred publishersWg.Done() runs on return.        *)
(***************************************************************************)
\* a channel send blocks while the buffer is full
ChannelHasRoom(ch) == Len(ch) < ChannelSize

\* a send made while ScanGroupOfRepos runs whatever the switch has chosen
OrgScanRunningAlways(p) == TRUE

\* ScanGroupOfRepos of the organization is running: its sends are the
\* organization's repositories
OrgScanRunning(p) == orgState[p] = "scanning"

\* repositories <- common.Repository{...} in a scanner's ScanRepo / addProject,
\* reached from the organization scan or from the loop over
\* publisher.Repositories.
\* A send on a closed channel panics: the sender makes no further step.
ScanSend(p) ==
    /\ pubPc[p] = "running"
    /\ emitted[p] < discovered[p]
    /\ closeCount = 0
    /\ ChannelHasRoom(repositories)
    /\ \E h \in RepoHosts, nm \in PublisherRepoNames(p) :
          repositories' = Append(repositories, Repository(p, emitted[p] + 1, h, nm))
    /\ emitted' = [emitted EXCEPT ![p] = @ + 1]
    /\ orgEmitted' = [orgEmitted EXCEPT ![p] = IF OrgScanRunning(p) THEN @ + 1 ELSE @]
    /\ UNCHANGED <<nonCrawlVars, cfgVars, mainPc, nextPub, pubPc, orgState, publishersWg, closeCount,
                   closerPc, fwdVars, workerVars, lockVars, histVars>>

\* ScanPublisher returns after its last send: defer c.publishersWg.Done()
ScanReturn(p) ==
    /\ pubPc[p] = "running"
    /\ emitted[p] = discovered[p]
    /\ pubPc' = [pubPc EXCEPT ![p] = "done"]
    /\ publishersWg' = publishersWg - 1
    /\ UNCHANGED <<nonCrawlVars, cfgVars, mainPc, nextPub, emitted, orgState, orgEmitted,
                   chanVars, fwdVars, workerVars, lockVars, histVars>>

(***************************************************************************)
(* ScanPublisher step by step: the switch on the organization URL, the     *)
(* organization scan and its error, then the loop over                     *)
(* publisher.Repositories.                                                 *)
(***************************************************************************)
\* the organization scan is over, with or without an error
OrgScanEnded(p) == orgState[p] \in {"unsupported", "failed", "returned"}

\* the switch on the organization URL: a scanner is called for a URL of a
\* known platform, the default branch only sets err
DispatchOrg(p) ==
    /\ pubPc[p] = "running"
    /\ orgState[p] = "none"
    /\ \E known \in BOOLEAN :
          orgState' = [orgState EXCEPT ![p] = IF known THEN "scanning" ELSE "unsupported"]
    /\ UNCHANGED <<nonCrawlVars, cfgVars, mainPc, nextPub, pubPc, emitted, orgEmitted,
                   publishersWg, chanVars, fwdVars, workerVars, lockVars, histVars>>

\* ScanGroupOfRepos returns nil, or the error of a failed request for any
\* page; ScanPublisher logs the error and goes on
OrgScanReturn(p) ==
    /\ pubPc[p] = "running"
    /\ orgState[p] = "scanning"
    /\ \E failed \in BOOLEAN :
          orgState' = [orgState EXCEPT ![p] = IF failed THEN "failed" ELSE "returned"]
    /\ UNCHANGED <<nonCrawlVars, cfgVars, mainPc, nextPub, pubPc, emitted, orgEmitted,
                   publishersWg, chanVars, fwdVars, workerVars, lockVars, histVars>>

\* a send of the organization scan or of the loop over publisher.Repositories
OrgOrListedSend(p) == orgState[p] # "none" /\ ScanSend(p)

\* ScanPublisher returns after the loop over publisher.Repositories
ListedLoopReturn(p) == OrgScanEnded(p) /\ ScanReturn(p)

(***************************************************************************)
(* The closing goroutine of CrawlPublishers.                               *)
(***************************************************************************)
\* go func() { c.publishersWg.Wait(); close(c.repositories) }()
StartCloser ==
    /\ mainPc = "scanLoop"
    /\ nextPub > NumPublishers
    /\ closerPc' = "waiting"
    /\ mainPc' = "startWorkers"
    /\ UNCHANGED <<nonCrawlVars, cfgVars, nextPub, pubVars, repositories, closeCount, fwdVars,
                   workerVars, lockVars, histVars>>

\* a closing goroutine that does not wait for the publisher tasks
PublishersWaitSkipped == TRUE

\* c.publishersWg.Wait() returns once the counter is zero
PublishersWaitDone == publishersWg = 0

\* close(c.repositories) after the wait
CloseRepositories ==
    /\ closerPc = "waiting"
    /\ PublishersWaitDone
    /\ closeCount' = closeCount + 1
    /\ closerPc' = "done"
    /\ UNCHANGED <<nonCrawlVars, cfgVars, mainPc, nextPub, pubVars, repositories, fwdVars,
                   workerVars, lockVars, histVars>>

(***************************************************************************)
(* crawl(): worker start, forwarding loop, shutdown.                       *)
(***************************************************************************)
\* for i := range workerCount { c.repositoriesWg.Add(1); go ProcessRepositories(reposChan) }
StartWorkers ==
    /\ mainPc = "startWorkers"
    /\ wPc' = [w \in Workers |-> "recv"]
    /\ repositoriesWg' = WorkerCount
    /\ mainPc' = "forward"
    /\ UNCHANGED <<nonCrawlVars, cfgVars, nextPub, pubVars, chanVars, fwdVars, wRepo,
                   wCloneErr, lockVars, histVars>>

\* a receive that leaves the received value in the buffer
DequeueKeepsHead(ch) == ch

\* what a receive leaves in the channel buffer
Dequeue(ch) == Tail(ch)

\* for repo := range c.repositories: one receive
ForwardRecv ==
    /\ mainPc = "forward"
    /\ Len(repositories) > 0
    /\ forwardRepo' = Head(repositories)
    /\ repositories' = Dequeue(repositories)
    /\ mainPc' = "forwardSend"
    /\ UNCHANGED <<nonCrawlVars, cfgVars, nextPub, pubVars, closeCount, closerPc,
                   reposChanClosed, workerVars, lockVars, histVars>>

\* reposChan <- repo: rendezvous with a worker blocked in `range repos`,
\* which then calls c.ProcessRepo(repository)
ForwardSend(w) ==
    /\ mainPc = "forwardSend"
    /\ wPc[w] = "recv"
    /\ wRepo' = [wRepo EXCEPT ![w] = forwardRepo]
    /\ wPc' = [wPc EXCEPT ![w] = "ensure"]
    /\ processedCount' = [processedCount EXCEPT ![forwardRepo.id] = @ + 1]
    /\ forwardRepo' = NoRepo
    /\ mainPc' = "forward"
    /\ UNCHANGED <<nonCrawlVars, cfgVars, nextPub, pubVars, chanVars, reposChanClosed,
                   wCloneErr, repositoriesWg, lockVars, postCount>>

\* the range over c.repositories ends (closed and drained); close(reposChan)
CloseReposChan ==
    /\ mainPc = "forward"
    /\ Len(repositories) = 0
    /\ closeCount > 0
    /\ reposChanClosed' = TRUE
    /\ mainPc' = "waitWorkers"
    /\ UNCHANGED <<nonCrawlVars, cfgVars, nextPub, pubVars, chanVars, forwardRepo, workerVars,
                   lockVars, histVars>>

\* a range over reposChan that ends while the channel is still open
RangeEndsUnclosed == TRUE

\* for repository := range repos ends: reposChan has been closed
RangeEnds == reposChanClosed

\* ProcessRepositories: the range over reposChan ends; defer repositoriesWg.Done()
WorkerExit(w) ==
    /\ wPc[w] = "recv"
    /\ RangeEnds
    /\ wPc' = [wPc EXCEPT ![w] = "exit"]
    /\ repositoriesWg' = repositoriesWg - 1
    /\ UNCHANGED <<nonCrawlVars, cfgVars, mainPc, nextPub, pubVars, chanVars, fwdVars, wRepo,
                   wCloneErr, lockVars, histVars>>

\* c.repositoriesWg.Wait(), then the deferred c.publishersWg.Wait(); crawl returns
CrawlReturn ==
    /\ mainPc = "waitWorkers"
    /\ repositoriesWg = 0
    /\ publishersWg = 0
    /\ mainPc' = "returned"
    /\ UNCHANGED <<nonCrawlVars, cfgVars, nextPub, pubVars, chanVars, fwdVars, workerVars,
                   lockVars, histVars>>

(***************************************************************************)
(* ProcessRepo, one step per call it makes.                                *)
(***************************************************************************)
\* c.ensurePubliccodeFile(...); in dry-run mode ProcessRepo returns after it
EnsurePubliccodeFile(w) ==
    /\ wPc[w] = "ensure"
    /\ wPc' = [wPc EXCEPT ![w] = IF DryRun THEN "recv" ELSE "lockMu"]
    /\ wRepo' = [wRepo EXCEPT ![w] = IF DryRun THEN NoRepo ELSE @]
    /\ UNCHANGED <<nonCrawlVars, cfgVars, mainPc, nextPub, pubVars, chanVars, fwdVars,
                   wCloneErr, repositoriesWg, lockVars, histVars>>

\* repoLockMap.lock: r.mu.Lock()
LockRegistry(w) ==
    /\ wPc[w] = "lockMu"
    /\ muHolder = NoWorker
    /\ muHolder' = w
    /\ wPc' = [wPc EXCEPT ![w] = "lockMap"]
    /\ UNCHANGED <<nonCrawlVars, cfgVars, mainPc, nextPub, pubVars, chanVars, fwdVars, wRepo,
                   wCloneErr, repositoriesWg, locks, lockOwner, histVars>>

\* a registry lock released by a deferred Unlock, after lock.Lock()
RegistryHeldAcrossLock(w) == w

\* the holder of r.mu once the key has been looked up: r.mu.Unlock() comes
\* before lock.Lock()
RegistryHolderAfterLookup(w) == NoWorker

\* repoLockMap.lock: look the key up, create the mutex if absent, r.mu.Unlock()
RegisterLock(w) ==
    /\ wPc[w] = "lockMap"
    /\ locks' = locks \cup {repoLockKey(wRepo[w])}
    /\ muHolder' = RegistryHolderAfterLookup(w)
    /\ wPc' = [wPc EXCEPT ![w] = "lockKey"]
    /\ UNCHANGED <<nonCrawlVars, cfgVars, mainPc, nextPub, pubVars, chanVars, fwdVars, wRepo,
                   wCloneErr, repositoriesWg, lockOwner, histVars>>

\* a per-repository mutex that never blocks
LockAlwaysAvailable(k) == TRUE

\* sync.Mutex.Lock of the per-repository mutex blocks while it is held
LockAvailable(k) == lockOwner[k] = NoWorker

\* repoLockMap.lock: lock.Lock(); CloneRepository is entered next
AcquireRepoLock(w) ==
    /\ wPc[w] = "lockKey"
    /\ LockAvailable(repoLockKey(wRepo[w]))
    /\ lockOwner' = [lockOwner EXCEPT ![repoLockKey(wRepo[w])] = w]
    /\ wPc' = [wPc EXCEPT ![w] = "clone"]
    /\ UNCHANGED <<nonCrawlVars, cfgVars, mainPc, nextPub, pubVars, chanVars, fwdVars, wRepo,
                   wCloneErr, repositoriesWg, muHolder, locks, histVars>>

\* git.CloneRepository(...) returns, with or without an error
CloneRepository(w) ==
    /\ wPc[w] = "clone"
    /\ \E err \in BOOLEAN : wCloneErr' = [wCloneErr EXCEPT ![w] = err]
    /\ wPc' = [wPc EXCEPT ![w] = "unlock"]
    /\ UNCHANGED <<nonCrawlVars, cfgVars, mainPc, nextPub, pubVars, chanVars, fwdVars, wRepo,
                   repositoriesWg, lockVars, histVars>>

\* an unlock() that is skipped when the clone has failed
HolderAfterFailedClone(w) == IF wCloneErr[w] THEN w ELSE NoWorker

\* the holder of the per-repository mutex after unlock(), which is called
\* whatever err is
HolderAfterUnlock(w) == NoWorker

\* unlock()
ReleaseRepoLock(w) ==
    /\ wPc[w] = "unlock"
    /\ lockOwner' = [lockOwner EXCEPT ![repoLockKey(wRepo[w])] = HolderAfterUnlock(w)]
    /\ wPc' = [wPc EXCEPT ![w] = "activity"]
    /\ UNCHANGED <<nonCrawlVars, cfgVars, mainPc, nextPub, pubVars, chanVars, fwdVars, wRepo,
                   wCloneErr, repositoriesWg, muHolder, locks, histVars>>

\* git.CalculateRepoActivity(...), then README and last-activity lookups
CalculateRepoActivity(w) ==
    /\ wPc[w] = "activity"
    /\ wPc' = [wPc EXCEPT ![w] = "post"]
    /\ UNCHANGED <<nonCrawlVars, cfgVars, mainPc, nextPub, pubVars, chanVars, fwdVars, wRepo,
                   wCloneErr, repositoriesWg, lockVars, histVars>>

\* c.apiClient.PostRepository(...); ProcessRepo returns
PostRepository(w) ==
    /\ wPc[w] = "post"
    /\ postCount' = [postCount EXCEPT ![wRepo[w].id] = @ + 1]
    /\ wPc' = [wPc EXCEPT ![w] = "recv"]
    /\ wRepo' = [wRepo EXCEPT ![w] = NoRepo]
    /\ wCloneErr' = [wCloneErr EXCEPT ![w] = FALSE]
    /\ UNCHANGED <<nonCrawlVars, cfgVars, mainPc, nextPub, pubVars, chanVars, fwdVars,
                   repositoriesWg, lockVars, processedCount>>

(***************************************************************************)
(* TokenProvider (internal/githubapp): Token and refreshToken.  Time is    *)
(* counted in minutes.                                                     *)
(***************************************************************************)
\* goroutines calling TokenProvider.Token, one call each
NumCallers == 3
\* last instant of the clock
MaxTime == 4
\* tokenRefreshThreshold = 2 * time.Minute
tokenRefreshThreshold == 2

Callers == 1..NumCallers
NoCaller == 0
NoToken == 0
\* minutes between the exchange response and the expires_at it carries
TokenLifetimes == {tokenRefreshThreshold, tokenRefreshThreshold + 2}
\* how p.client.Do and the decoding of its response can end
ExchangeOutcomes == {"ok", "transport", "status", "decode", "missingToken", "badExpiry"}
NoResult == [tok |-> NoToken, exp |-> 0, err |-> "pending"]

TokenInit ==
    /\ tokNow = 0
    /\ accessTok = NoToken
    /\ expiresAt = 0
    /\ tokMu = NoCaller
    /\ cPc = [c \in Callers |-> "idle"]
    /\ cResult = [c \in Callers |-> NoResult]
    /\ cStartedEmpty = [c \in Callers |-> FALSE]
    /\ exchanges = 0

\* a validity check that still accepts a token exactly at the threshold
CachedValidAtThreshold ==
    accessTok # NoToken /\ expiresAt - tokNow >= tokenRefreshThreshold

\* p.accessTok != "" && time.Until(p.expiresAt) > tokenRefreshThreshold
CachedValid == accessTok # NoToken /\ expiresAt - tokNow > tokenRefreshThreshold

CachedResult == [tok |-> accessTok, exp |-> expiresAt, err |-> "none"]

\* a caller invokes p.Token(ctx)
StartCall(c) ==
    /\ cPc[c] = "idle"
    /\ cPc' = [cPc EXCEPT ![c] = "check"]
    /\ cStartedEmpty' = [cStartedEmpty EXCEPT ![c] = (accessTok = NoToken)]
    /\ UNCHANGED <<nonTokVars, tokNow, accessTok, expiresAt, tokMu, cResult, exchanges>>

\* Token: p.mu.Lock(); validity check; p.mu.Unlock(); return or call refreshToken
TokenCheck(c) ==
    /\ cPc[c] = "check"
    /\ tokMu = NoCaller
    /\ IF CachedValid
       THEN /\ cResult' = [cResult EXCEPT ![c] = CachedResult]
            /\ cPc' = [cPc EXCEPT ![c] = "done"]
       ELSE /\ cPc' = [cPc EXCEPT ![c] = "refresh"]
            /\ UNCHANGED cResult
    /\ UNCHANGED <<nonTokVars, tokNow, accessTok, expiresAt, tokMu, cStartedEmpty,
                   exchanges>>

\* a refreshToken that does not look at the cache again
RefreshNeverRechecks == FALSE

\* refreshToken: the validity check repeated under the lock
RefreshRecheckValid == CachedValid

\* refreshToken: p.mu.Lock(); return the cached token if another caller has
\* refreshed it meanwhile, else keep the lock and send the exchange request
RefreshLock(c) ==
    /\ cPc[c] = "refresh"
    /\ tokMu = NoCaller
    /\ IF RefreshRecheckValid
       THEN /\ cResult' = [cResult EXCEPT ![c] = CachedResult]
            /\ cPc' = [cPc EXCEPT ![c] = "done"]
            /\ UNCHANGED tokMu
       ELSE /\ cPc' = [cPc EXCEPT ![c] = "exchange"]
            /\ tokMu' = c
            /\ UNCHANGED cResult
    /\ UNCHANGED <<nonTokVars, tokNow, accessTok, expiresAt, cStartedEmpty, exchanges>>

\* an Unlock reached only by the successful return
MuKeptOnError(c, outcome) == IF outcome = "ok" THEN NoCaller ELSE c

\* the holder of p.mu when refreshToken has returned: the deferred
\* p.mu.Unlock() runs on every return
MuAfterRefresh(c, outcome) == NoCaller

\* refreshToken: p.client.Do(req) and the handling of its response; the
\* deferred p.mu.Unlock() runs on every return
Exchange(c) ==
    /\ cPc[c] = "exchange"
    /\ exchanges' = exchanges + 1
    /\ \E outcome \in ExchangeOutcomes :
        /\ IF outcome = "ok"
           THEN \E life \in TokenLifetimes :
                   /\ accessTok' = exchanges + 1
                   /\ expiresAt' = tokNow + life
                   /\ cResult' = [cResult EXCEPT ![c] =
                           [tok |-> exchanges + 1, exp |-> tokNow + life, err |-> "none"]]
           ELSE /\ cResult' = [cResult EXCEPT ![c] =
                           [tok |-> NoToken, exp |-> 0, err |-> outcome]]
                /\ UNCHANGED <<accessTok, expiresAt>>
        /\ tokMu' = MuAfterRefresh(c, outcome)
    /\ cPc' = [cPc EXCEPT ![c] = "done"]
    /\ UNCHANGED <<nonTokVars, tokNow, cStartedEmpty>>

\* the clock advances
TokenTick ==
    /\ tokNow < MaxTime
    /\ tokNow' = tokNow + 1
    /\ UNCHANGED <<nonTokVars, accessTok, expiresAt, tokMu, cPc, cResult,
                   cStartedEmpty, exchanges>>

TokenNext ==
    \/ \E c \in Callers : StartCall(c)
    \/ \E c \in Callers : TokenCheck(c)
    \/ \E c \in Callers : RefreshLock(c)
    \/ \E c \in Callers : Exchange(c)
    \/ TokenTick

(***************************************************************************)
(* gitlabCallWithRateLimitRetry and gitlabWithAPISlot (scanner).  Errors   *)
(* are records; errors.Is is modelled by ErrorsIs.                         *)
(***************************************************************************)
\* concurrent calls of gitlabCallWithRateLimitRetry
NumGitLabCalls == 2
\* const defaultGitLabAPIConcurrency = 4
defaultGitLabAPIConcurrency == 4
\* const maxGitLabRateLimitRetries = 5
maxGitLabRateLimitRetries == 5

GitLabCalls == 1..NumGitLabCalls
\* goroutines (workers and publisher tasks) making GitLab API calls through
\* gitlabWithAPISlot at the same time
NumSlotCallers == 6
SlotCallers == 1..NumSlotCallers
CtxErrors == {"Canceled", "DeadlineExceeded"}
\* reset instants gitlabRateLimitReset can report: unknown (zero) or known
ResetKinds == {"zero", "known"}

NilError == [type |-> "nil"]
OtherError == [type |-> "other"]
ContextError(which) == [type |-> "context", which |-> which]
RateLimitError(provider, reset) ==
    [type |-> "RateLimitError", Provider |-> provider, Reset |-> reset]
\* errors.New(msg)
NewError(msg) == [type |-> "errors.New", msg |-> msg]
\* fmt.Errorf(msg) with no %w verb
FmtError(msg) == [type |-> "fmt.Errorf", msg |-> msg, wraps |-> NilError]
\* fmt.Errorf(msg + ": %w", err)
FmtErrorWrap(msg, err) == [type |-> "fmt.Errorf", msg |-> msg, wraps |-> err]

\* errors.Is(err, target): identity for the sentinels context.Canceled and
\* context.DeadlineExceeded, the Is method for a RateLimitError, the wrapped
\* error for an error built with %w
RECURSIVE ErrorsIs(_, _)
ErrorsIs(err, target) ==
    IF err.type = "RateLimitError" THEN target = "ErrLastCommitRateLimited"
    ELSE IF err.type = "context" THEN target = err.which
    ELSE IF err.type = "fmt.Errorf" THEN ErrorsIs(err.wraps, target)
    ELSE FALSE

RetryInit ==
    /\ gitlabAPILimiter = 0
    /\ gCtx = [g \in GitLabCalls |-> "active"]
    /\ gPc = [g \in GitLabCalls |-> "idle"]
    /\ gAttempt = [g \in GitLabCalls |-> 0]
    /\ gTimer = [g \in GitLabCalls |-> "none"]
    /\ gErr = [g \in GitLabCalls |-> NilError]
    /\ gCalls = [g \in GitLabCalls |-> 0]
    /\ gRateLimited = [g \in GitLabCalls |-> 0]
    /\ gCtxAtStart = [g \in GitLabCalls |-> "active"]
    /\ gCancelledInWait = [g \in GitLabCalls |-> FALSE]
    /\ sPc = [c \in SlotCallers |-> "idle"]

\* no call of gitlabCallWithRateLimitRetry is followed
RetryParked ==
    /\ gitlabAPILimiter = 0
    /\ gCtx = [g \in GitLabCalls |-> "active"]
    /\ gPc = [g \in GitLabCalls |-> "done"]
    /\ gAttempt = [g \in GitLabCalls |-> 0]
    /\ gTimer = [g \in GitLabCalls |-> "none"]
    /\ gErr = [g \in GitLabCalls |-> NilError]
    /\ gCalls = [g \in GitLabCalls |-> 0]
    /\ gRateLimited = [g \in GitLabCalls |-> 0]
    /\ gCtxAtStart = [g \in GitLabCalls |-> "active"]
    /\ gCancelledInWait = [g \in GitLabCalls |-> FALSE]
    /\ sPc = [c \in SlotCallers |-> "idle"]

\* calls of gitlabCallWithRateLimitRetry start while other goroutines are
\* inside gitlabWithAPISlot and hold every slot
RetryBusyInit ==
    /\ gitlabAPILimiter = defaultGitLabAPIConcurrency
    /\ gCtx = [g \in GitLabCalls |-> "active"]
    /\ gPc = [g \in GitLabCalls |-> "idle"]
    /\ gAttempt = [g \in GitLabCalls |-> 0]
    /\ gTimer = [g \in GitLabCalls |-> "none"]
    /\ gErr = [g \in GitLabCalls |-> NilError]
    /\ gCalls = [g \in GitLabCalls |-> 0]
    /\ gRateLimited = [g \in GitLabCalls |-> 0]
    /\ gCtxAtStart = [g \in GitLabCalls |-> "active"]
    /\ gCancelledInWait = [g \in GitLabCalls |-> FALSE]
    /\ sPc = [c \in SlotCallers |->
                IF c <= defaultGitLabAPIConcurrency THEN "inCall" ELSE "idle"]

\* the caller's context is cancelled or its deadline expires
CancelCtx(g) ==
    /\ gCtx[g] = "active"
    /\ gPc[g] # "done"
    /\ \E which \in CtxErrors : gCtx' = [gCtx EXCEPT ![g] = which]
    /\ gCancelledInWait' = [gCancelledInWait EXCEPT ![g] =
            (gPc[g] = "wait" /\ gTimer[g] = "pending")]
    /\ UNCHANGED <<nonRetryVars, gitlabAPILimiter, gPc, gAttempt, gTimer, gErr,
                   gCalls, gRateLimited, gCtxAtStart>>

\* gitlabCallWithRateLimitRetry is entered: attempt := 0
RetryStart(g) ==
    /\ gPc[g] = "idle"
    /\ gPc' = [gPc EXCEPT ![g] = "loopTop"]
    /\ gCtxAtStart' = [gCtxAtStart EXCEPT ![g] = gCtx[g]]
    /\ UNCHANGED <<nonRetryVars, gitlabAPILimiter, gCtx, gAttempt, gTimer, gErr,
                   gCalls, gRateLimited, gCancelledInWait>>

\* a loop that does not look at the context before calling
CtxNeverCheckedAtLoopTop(g) == FALSE

\* if ctx.Err() != nil at the top of the loop body
CtxErrAtLoopTop(g) == gCtx[g] # "active"

\* top of the loop body: return ctx.Err(), or go on to gitlabWithAPISlot
RetryLoopTop(g) ==
    /\ gPc[g] = "loopTop"
    /\ IF CtxErrAtLoopTop(g)
       THEN /\ gErr' = [gErr EXCEPT ![g] = ContextError(gCtx[g])]
            /\ gPc' = [gPc EXCEPT ![g] = "done"]
       ELSE /\ gPc' = [gPc EXCEPT ![g] = "acquire"]
            /\ UNCHANGED gErr
    /\ UNCHANGED <<nonRetryVars, gitlabAPILimiter, gCtx, gAttempt, gTimer, gCalls,
                   gRateLimited, gCtxAtStart, gCancelledInWait>>

\* a limiter channel with no capacity limit
SlotAlwaysFree == TRUE

\* sem <- struct{}{} can proceed: the channel buffer of
\* defaultGitLabAPIConcurrency slots is not full
SlotFree == gitlabAPILimiter < defaultGitLabAPIConcurrency

\* gitlabWithAPISlot: sem <- struct{}{} blocks while all slots are taken;
\* then call() is invoked
AcquireSlot(g) ==
    /\ gPc[g] = "acquire"
    /\ SlotFree
    /\ gitlabAPILimiter' = gitlabAPILimiter + 1
    /\ gCalls' = [gCalls EXCEPT ![g] = @ + 1]
    /\ gPc' = [gPc EXCEPT ![g] = "inCall"]
    /\ UNCHANGED <<nonRetryVars, gCtx, gAttempt, gTimer, gErr, gRateLimited,
                   gCtxAtStart, gCancelledInWait>>

\* a retry budget that ends one attempt early
RetriesExhaustedEarly(attempt) == attempt >= maxGitLabRateLimitRetries - 1

\* if attempt >= maxGitLabRateLimitRetries
RetriesExhausted(attempt) == attempt >= maxGitLabRateLimitRetries

\* a slot that is given back only after the backoff wait of a
\* rate-limited call
SlotsKeptWhenRateLimited(inUse, outcome) ==
    IF outcome = "rateLimited" THEN inUse ELSE inUse - 1

\* gitlabWithAPISlot: defer func() { <-sem }() runs when call() returns,
\* whatever it returns
SlotsAfterCall(inUse, outcome) == inUse - 1

\* call() returns nil: result returned at once; the deferred <-sem frees the slot
CallSucceeds(g) ==
    /\ gPc[g] = "inCall"
    /\ gitlabAPILimiter' = SlotsAfterCall(gitlabAPILimiter, "succeeded")
    /\ gErr' = [gErr EXCEPT ![g] = NilError]
    /\ gPc' = [gPc EXCEPT ![g] = "done"]
    /\ UNCHANGED <<nonRetryVars, gCtx, gAttempt, gTimer, gCalls, gRateLimited,
                   gCtxAtStart, gCancelledInWait>>

\* call() fails and gitlabRateLimitReset reports no rate limit: err returned
CallFails(g) ==
    /\ gPc[g] = "inCall"
    /\ gitlabAPILimiter' = SlotsAfterCall(gitlabAPILimiter, "failed")
    /\ gErr' = [gErr EXCEPT ![g] = OtherError]
    /\ gPc' = [gPc EXCEPT ![g] = "done"]
    /\ UNCHANGED <<nonRetryVars, gCtx, gAttempt, gTimer, gCalls, gRateLimited,
                   gCtxAtStart, gCancelledInWait>>

\* call() is answered with a rate limit: RateLimitError once the retries are
\* used up, else the wait of gitlabRateLimitWait(reset) starts
CallRateLimited(g) ==
    /\ gPc[g] = "inCall"
    /\ gitlabAPILimiter' = SlotsAfterCall(gitlabAPILimiter, "rateLimited")
    /\ gRateLimited' = [gRateLimited EXCEPT ![g] = @ + 1]
    /\ \E reset \in ResetKinds :
        IF RetriesExhausted(gAttempt[g])
        THEN /\ gErr' = [gErr EXCEPT ![g] = RateLimitError("GitLab", reset)]
             /\ gPc' = [gPc EXCEPT ![g] = "done"]
             /\ UNCHANGED gTimer
        ELSE /\ gPc' = [gPc EXCEPT ![g] = "wait"]
             /\ gTimer' = [gTimer EXCEPT ![g] = "pending"]
             /\ UNCHANGED gErr
    /\ UNCHANGED <<nonRetryVars, gCtx, gAttempt, gCalls, gCtxAtStart,
                   gCancelledInWait>>

\* a select without the ctx.Done() case
WaitIgnoresCtx(g) == FALSE

\* the channel ctx.Done() is ready
CtxDone(g) == gCtx[g] # "active"

\* the nominal duration of the wait elapses and wakes the select; a select
\* already woken by ctx.Done() is not woken by the timer any more
TimerFires(g) ==
    /\ gPc[g] = "wait"
    /\ gTimer[g] = "pending"
    /\ ~CtxDone(g)
    /\ gTimer' = [gTimer EXCEPT ![g] = "fired"]
    /\ UNCHANGED <<nonRetryVars, gitlabAPILimiter, gCtx, gPc, gAttempt, gErr,
                   gCalls, gRateLimited, gCtxAtStart, gCancelledInWait>>

\* select: case <-time.After(wait); attempt++
WaitElapsed(g) ==
    /\ gPc[g] = "wait"
    /\ gTimer[g] = "fired"
    /\ gAttempt' = [gAttempt EXCEPT ![g] = @ + 1]
    /\ gTimer' = [gTimer EXCEPT ![g] = "none"]
    /\ gPc' = [gPc EXCEPT ![g] = "loopTop"]
    /\ UNCHANGED <<nonRetryVars, gitlabAPILimiter, gCtx, gErr, gCalls,
                   gRateLimited, gCtxAtStart, gCancelledInWait>>

\* select: case <-ctx.Done(): return ctx.Err()
WaitCancelled(g) ==
    /\ gPc[g] = "wait"
    /\ gTimer[g] = "pending"
    /\ CtxDone(g)
    /\ gErr' = [gErr EXCEPT ![g] = ContextError(gCtx[g])]
    /\ gPc' = [gPc EXCEPT ![g] = "done"]
    /\ UNCHANGED <<nonRetryVars, gitlabAPILimiter, gCtx, gAttempt, gTimer, gCalls,
                   gRateLimited, gCtxAtStart, gCancelledInWait>>

(***************************************************************************)
(* gitlabWithAPISlot under many callers: every GitLab API call of the      *)
(* scanner passes through it.                                              *)
(***************************************************************************)
\* a goroutine calls gitlabWithAPISlot(call)
SlotRequest(c) ==
    /\ sPc[c] = "idle"
    /\ sPc' = [sPc EXCEPT ![c] = "acquire"]
    /\ UNCHANGED <<nonSlotVars, gitlabAPILimiter>>

\* sem <- struct{}{}; then call() is invoked
SlotAcquire(c) ==
    /\ sPc[c] = "acquire"
    /\ SlotFree
    /\ gitlabAPILimiter' = gitlabAPILimiter + 1
    /\ sPc' = [sPc EXCEPT ![c] = "inCall"]
    /\ UNCHANGED nonSlotVars

\* call() returns; the deferred <-sem frees the slot
SlotRelease(c) ==
    /\ sPc[c] = "inCall"
    /\ gitlabAPILimiter' = gitlabAPILimiter - 1
    /\ sPc' = [sPc EXCEPT ![c] = "idle"]
    /\ UNCHANGED nonSlotVars

SlotNext ==
    \/ \E c \in SlotCallers : SlotRequest(c)
    \/ \E c \in SlotCallers : SlotAcquire(c)
    \/ \E c \in SlotCallers : SlotRelease(c)

RetryNext ==
    \/ \E g \in GitLabCalls : CancelCtx(g)
    \/ \E g \in GitLabCalls : RetryStart(g)
    \/ \E g \in GitLabCalls : RetryLoopTop(g)
    \/ \E g \in GitLabCalls : AcquireSlot(g)
    \/ \E g \in GitLabCalls : CallSucceeds(g)
    \/ \E g \in GitLabCalls : CallFails(g)
    \/ \E g \in GitLabCalls : CallRateLimited(g)
    \/ \E g \in GitLabCalls : TimerFires(g)
    \/ \E g \in GitLabCalls : WaitElapsed(g)
    \/ \E g \in GitLabCalls : WaitCancelled(g)

(***************************************************************************)
(* RateLimitResetFromHeaders: the rate-limit header parser.                *)
(*                                                                         *)
(* Instants are Unix seconds.  A header line is a sequence of values; the  *)
(* raw string of the line is the values joined by ", ".  A value is a      *)
(* decimal integer, an HTTP date (which itself contains one comma, after   *)
(* the weekday) or text that is neither.                                   *)
(***************************************************************************)
\* header lines in one http.Header
MaxHeaderLines == 2
\* comma-joined values in one header line
MaxLineValues == 2

\* maxRateLimitResetDelay = 24 * time.Hour, in seconds
maxRateLimitResetDelay == 86400
\* maxRetryAfterSeconds = int64(maxRateLimitResetDelay / time.Second)
maxRetryAfterSeconds == 86400

\* time.Time{}: no Unix second of the model denotes it
ZeroTime == -2000000000

\* the instants time.Now() returns
Nows == {1700000000, 1700003700}

HeaderKeys == {"RateLimit-Reset", "X-RateLimit-Reset", "Retry-After"}

IntValue(n) == [kind |-> "int", n |-> n]
DateValue(t) == [kind |-> "date", n |-> t]
TextValue == [kind |-> "text", n |-> 0]

HeaderValues ==
    { IntValue(n) : n \in {-5, 3, 86401, 1700000005, 1700090000} }
        \cup { DateValue(t) : t \in {1700000007, 1700090001} }
        \cup { TextValue }

HeaderLines == UNION { [1..n -> HeaderValues] : n \in 1..MaxLineValues }
HeaderEntries == [key : HeaderKeys, line : HeaderLines]
HeaderInputs == UNION { [1..n -> HeaderEntries] : n \in 0..MaxHeaderLines }

\* time.Unix(unix, 0)
TimeUnix(unix) == unix

\* strings.Split(raw, ",") followed by strings.TrimSpace on each piece: an
\* integer or a text value is one piece, an HTTP date falls into two pieces
\* neither of which is an integer
RECURSIVE SplitComma(_)
SplitComma(line) ==
    IF Len(line) = 0 THEN <<>>
    ELSE (IF Head(line).kind = "date" THEN <<TextValue, TextValue>>
          ELSE <<Head(line)>>) \o SplitComma(Tail(line))

\* strconv.ParseInt(value, 10, 64) on the trimmed raw string of a line:
\* it succeeds only when the string is one integer
ParseIntOk(line) == Len(line) = 1 /\ line[1].kind = "int"

\* http.ParseTime(value) on the trimmed raw string of a line: it succeeds
\* only when the string is one HTTP date
ParseTimeOk(line) == Len(line) = 1 /\ line[1].kind = "date"

\* retryAfterReset(raw, now): [ok, reset]
retryAfterReset(line, now) ==
    IF ParseIntOk(line)
    THEN IF line[1].n <= 0 \/ line[1].n > maxRetryAfterSeconds
         THEN [ok |-> FALSE, reset |-> ZeroTime]
         ELSE [ok |-> TRUE, reset |-> now + line[1].n]
    ELSE IF ParseTimeOk(line)
         THEN [ok |-> TRUE, reset |-> line[1].n]
         ELSE [ok |-> FALSE, reset |-> ZeroTime]

\* the closure consider: the new latestReset
consider(latestReset, candidate, maxAcceptedReset) ==
    IF candidate = ZeroTime \/ candidate > maxAcceptedReset THEN latestReset
    ELSE IF latestReset = ZeroTime \/ candidate > latestReset THEN candidate
    ELSE latestReset

\* the innermost loop over the pieces of one RateLimit-Reset line
RECURSIVE ConsiderResetValues(_, _, _)
ConsiderResetValues(latestReset, values, maxAcceptedReset) ==
    IF Len(values) = 0 THEN latestReset
    ELSE ConsiderResetValues(
            IF Head(values).kind = "int"
            THEN consider(latestReset, TimeUnix(Head(values).n), maxAcceptedReset)
            ELSE latestReset,
            Tail(values), maxAcceptedReset)

\* headers.Values(key): the lines of that key, in order
Values(hdrs, key) == SelectSeq(hdrs, LAMBDA e : e.key = key)

\* for _, raw := range headers.Values(key), for the two reset keys
RECURSIVE ConsiderResetLines(_, _, _)
ConsiderResetLines(latestReset, entries, maxAcceptedReset) ==
    IF Len(entries) = 0 THEN latestReset
    ELSE ConsiderResetLines(
            ConsiderResetValues(latestReset, SplitComma(Head(entries).line),
                                maxAcceptedReset),
            Tail(entries), maxAcceptedReset)

\* for _, raw := range headers.Values("Retry-After")
RECURSIVE ConsiderRetryAfterLines(_, _, _, _)
ConsiderRetryAfterLines(latestReset, entries, now, maxAcceptedReset) ==
    IF Len(entries) = 0 THEN latestReset
    ELSE LET r == retryAfterReset(Head(entries).line, now)
         IN  ConsiderRetryAfterLines(
                IF r.ok THEN consider(latestReset, r.reset, maxAcceptedReset)
                ELSE latestReset,
                Tail(entries), now, maxAcceptedReset)

\* RateLimitResetFromHeaders(headers) with time.Now() = now: [ok, reset]
RateLimitResetFromHeaders(hdrs, now) ==
    LET maxAcceptedReset == now + maxRateLimitResetDelay
        afterFirst == ConsiderResetLines(ZeroTime, Values(hdrs, "RateLimit-Reset"),
                                         maxAcceptedReset)
        afterSecond == ConsiderResetLines(afterFirst, Values(hdrs, "X-RateLimit-Reset"),
                                          maxAcceptedReset)
        latestReset == ConsiderRetryAfterLines(afterSecond, Values(hdrs, "Retry-After"),
                                               now, maxAcceptedReset)
    IN  IF latestReset = ZeroTime THEN [ok |-> FALSE, reset |-> ZeroTime]
        ELSE [ok |-> TRUE, reset |-> latestReset]

\* no response has been received
HeaderParked ==
    /\ hNow \in {n \in Nows : \A m \in Nows : n <= m}
    /\ headers = <<>>
    /\ hPc = "parsed"
    /\ hReset = ZeroTime
    /\ hOk = FALSE

\* a response with any of the header combinations has been received
HeaderInit ==
    /\ hNow \in Nows
    /\ headers \in HeaderInputs
    /\ hPc = "received"
    /\ hReset = ZeroTime
    /\ hOk = FALSE

\* a caller (gitlabRateLimitReset, githubCommitRateLimit) parses the headers
ParseHeaders ==
    /\ hPc = "received"
    /\ LET r == RateLimitResetFromHeaders(headers, hNow)
       IN  /\ hReset' = r.reset
           /\ hOk' = r.ok
    /\ hPc' = "parsed"
    /\ UNCHANGED <<nonHdrVars, hNow, headers>>

HeaderNext == ParseHeaders

(***************************************************************************)
(* ProcessRepo followed through the data of one repository.  A string is   *)
(* a sequence of its parts, the empty string is <<>>; a *string is a       *)
(* record that is nil or points to a string.                               *)
(***************************************************************************)
EmptyString == <<>>
NilPtr == [nil |-> TRUE, v |-> EmptyString]
Ptr(v) == [nil |-> FALSE, v |-> v]

\* the repositories a scanner hands over
FileRawURLs == {EmptyString, <<"https://host/raw/publiccode.yml">>}
Titles == {EmptyString, <<"Title">>}
Descriptions == {EmptyString, <<"Description">>}
FullNames == {<<>>, <<"repo">>, <<"group", "subgroup", "repo">>}
CloneURLs == {EmptyString, <<"https://host/group/repo.git">>}

\* httpclient.GetURL: a transport error, or a response with a status code
NoFetch == [err |-> FALSE, code |-> -1]
FetchOutcomes ==
    {[err |-> TRUE, code |-> 0]} \cup {[err |-> FALSE, code |-> c] : c \in {200, 404, 500}}

\* instants: repository.UpdatedAt of the listing, the last commit of the
\* local clone, the last commit the provider API reports, time.Time{}
UpdatedAt == "UpdatedAt"
GitLastCommit == "git last commit"
ApiLastCommit == "API last commit"
ZeroInstant == "time.Time{}"

\* git.LastCommitTime(repository): an instant or an error
GitLastOutcomes ==
    {[err |-> "none", t |-> GitLastCommit], [err |-> "other", t |-> ZeroInstant]}

\* LastCommitTimeFromAPI of the scanner of the host: an instant, a
\* RateLimitError or another error (an unsupported host, no commits found)
ApiLastOutcomes ==
    {[err |-> "none", t |-> ApiLastCommit],
     [err |-> "rateLimit", t |-> ZeroInstant],
     [err |-> "other", t |-> ZeroInstant]}

\* git.ReadReadme followed by descriptionFromReadme
ReadmeOutcomes ==
    {[err |-> "none", description |-> d] : d \in {EmptyString, <<"first paragraph">>}}
        \cup {[err |-> e, description |-> EmptyString] : e \in {"ErrReadmeNotFound", "other"}}

\* path.Base(repository.Name), "" for an empty name
titleFromRepositoryName(repository) ==
    IF repository.Name = <<>> THEN EmptyString
    ELSE <<repository.Name[Len(repository.Name)]>>

ensureDescription(repository) ==
    IF repository.Description # EmptyString THEN repository.Description
    ELSE IF repository.Title # EmptyString THEN repository.Title
    ELSE IF repository.Name # <<>> THEN JoinSlash(repository.Name)
    ELSE <<"No description provided">>

repositoryPubliccodeURL(repository) ==
    IF repository.FileRawURL = EmptyString THEN NilPtr ELSE Ptr(repository.FileRawURL)

\* repoPostDetails: [title, desc]
repoPostDetails(repository) ==
    LET title == IF repository.Title = EmptyString THEN JoinSlash(repository.Name)
                 ELSE repository.Title
    IN  [title |-> IF title = EmptyString THEN NilPtr ELSE Ptr(title),
         desc |-> Ptr(ensureDescription(repository))]

ProcessRepoParked ==
    /\ prPc = "returned"
    /\ prRepository = [FileRawURL |-> EmptyString, Title |-> EmptyString,
                       Description |-> EmptyString, Name |-> <<>>,
                       CanonicalURL |-> EmptyString]
    /\ prFetch = NoFetch
    /\ prHasPubliccode = FALSE
    /\ prCloneErr = FALSE
    /\ prClones = 0
    /\ prPosts = <<>>
    /\ prGitLast = [err |-> "none", t |-> GitLastCommit]
    /\ prApiLast = [err |-> "none", t |-> ApiLastCommit]
    /\ prApiCalls = 0

\* ProcessRepo is called with a repository
ProcessRepoInit ==
    /\ prPc = "ensure"
    /\ prRepository \in [FileRawURL : FileRawURLs, Title : Titles,
                         Description : Descriptions, Name : FullNames,
                         CanonicalURL : CloneURLs]
    /\ prFetch = NoFetch
    /\ prHasPubliccode = FALSE
    /\ prCloneErr = FALSE
    /\ prClones = 0
    /\ prPosts = <<>>
    /\ prGitLast \in GitLastOutcomes
    /\ prApiLast \in ApiLastOutcomes
    /\ prApiCalls = 0

\* a fetch that counts any answer without a transport error as the file
FetchAnyAnswerOK(resp) == ~resp.err

\* ensurePubliccodeFile: statusCode == http.StatusOK && err == nil
FetchOK(resp) == resp.code = 200 /\ ~resp.err

\* a ProcessRepo that goes on to the clone in every mode
AfterEnsureAlwaysClone == "clone"

\* if c.DryRun { return }: where ProcessRepo goes after ensurePubliccodeFile
AfterEnsure == IF DryRun THEN "returned" ELSE "clone"

\* c.ensurePubliccodeFile(&repository, &logEntries); hasPubliccode := ...;
\* if c.DryRun { return }
PrEnsurePubliccodeFile ==
    /\ prPc = "ensure"
    /\ IF prRepository.FileRawURL = EmptyString
       THEN UNCHANGED <<prFetch, prRepository>> /\ prHasPubliccode' = FALSE
       ELSE \E resp \in FetchOutcomes :
               /\ prFetch' = resp
               /\ prRepository' = IF FetchOK(resp) THEN prRepository
                                  ELSE [prRepository EXCEPT !.FileRawURL = EmptyString]
               /\ prHasPubliccode' = FetchOK(resp)
    /\ prPc' = AfterEnsure
    /\ UNCHANGED <<nonPrVars, prCloneErr, prClones, prPosts, prGitLast, prApiLast,
                   prApiCalls>>

\* a ProcessRepo that gives up a repository whose clone or activity
\* computation failed
AfterCloneStopsOnError(cloneErr) == IF cloneErr THEN "returned" ELSE "backfill"

\* cloneErr := c.cloneAndLogActivity(..): ProcessRepo goes on whatever
\* cloneErr is
AfterClone(cloneErr) == "backfill"

\* cloneAndLogActivity: no clone for an empty clone URL; else the clone
\* under the repository lock, then CalculateRepoActivity, whose error is
\* the one returned
PrCloneAndLogActivity ==
    /\ prPc = "clone"
    /\ IF prRepository.CanonicalURL = EmptyString
       THEN prCloneErr' = TRUE /\ UNCHANGED prClones
       ELSE /\ prClones' = prClones + 1
            /\ \E activityErr \in BOOLEAN : prCloneErr' = activityErr
    /\ prPc' = AfterClone(prCloneErr')
    /\ UNCHANGED <<nonPrVars, prRepository, prFetch, prHasPubliccode, prPosts,
                   prGitLast, prApiLast, prApiCalls>>

\* if !hasPubliccode { description from the README, title from the name }
PrBackfill ==
    /\ prPc = "backfill"
    /\ IF prHasPubliccode
       THEN UNCHANGED prRepository
       ELSE \E readme \in ReadmeOutcomes :
              LET withDesc ==
                      IF /\ prRepository.Description = EmptyString
                         /\ ~prCloneErr
                         /\ readme.err = "none"
                      THEN [prRepository EXCEPT !.Description = readme.description]
                      ELSE prRepository
              IN  prRepository' =
                      IF withDesc.Title = EmptyString
                      THEN [withDesc EXCEPT !.Title = titleFromRepositoryName(withDesc)]
                      ELSE withDesc
    /\ prPc' = "post"
    /\ UNCHANGED <<nonPrVars, prFetch, prHasPubliccode, prCloneErr, prClones, prPosts,
                   prGitLast, prApiLast, prApiCalls>>

\* lastActivityFromAPI: the scanner's answer when it is an instant, else
\* repository.UpdatedAt
lastActivityFromAPI(api) ==
    IF api.err = "none" /\ api.t # ZeroInstant
    THEN [lastActivity |-> api.t, ok |-> TRUE]
    ELSE [lastActivity |-> UpdatedAt, ok |-> FALSE]

\* lastActivityFromGit is to call lastActivityFromAPI: git.LastCommitTime
\* failed and cloneErr != nil
ApiConsulted(gitLast, cloneErr) == gitLast.err # "none" /\ cloneErr

\* a lastActivityFromGit that asks the API first and reads the clone only
\* when the API gave no instant
lastActivityFromGitAfterAPI(gitLast, cloneErr, api) ==
    IF lastActivityFromAPI(api).ok THEN lastActivityFromAPI(api).lastActivity
    ELSE IF gitLast.err = "none" THEN gitLast.t
    ELSE UpdatedAt

\* lastActivityFromGit(repository, cloneErr, &logEntries)
lastActivityFromGit(gitLast, cloneErr, api) ==
    IF gitLast.err = "none" THEN gitLast.t
    ELSE IF ApiConsulted(gitLast, cloneErr) /\ lastActivityFromAPI(api).ok
    THEN lastActivityFromAPI(api).lastActivity
    ELSE UpdatedAt

\* lastActivity := c.lastActivityFromGit(..), then
\* c.apiClient.PostRepository(url, repoTitle, repoDesc, publiccodeURL, ...,
\* lastActivity); its error is only logged
PrPostRepository ==
    /\ prPc = "post"
    /\ prApiCalls' = IF ApiConsulted(prGitLast, prCloneErr) THEN prApiCalls + 1
                     ELSE prApiCalls
    /\ LET details == IF prHasPubliccode THEN [title |-> NilPtr, desc |-> NilPtr]
                      ELSE repoPostDetails(prRepository)
       IN  prPosts' = Append(prPosts,
                [title |-> details.title, desc |-> details.desc,
                 publiccodeURL |-> repositoryPubliccodeURL(prRepository),
                 lastActivity |-> lastActivityFromGit(prGitLast, prCloneErr, prApiLast)])
    /\ prPc' = "returned"
    /\ UNCHANGED <<nonPrVars, prRepository, prFetch, prHasPubliccode, prCloneErr, prClones,
                   prGitLast, prApiLast>>

ProcessRepoNext ==
    \/ PrEnsurePubliccodeFile
    \/ PrCloneAndLogActivity
    \/ PrBackfill
    \/ PrPostRepository

(***************************************************************************)
(* common.SplitFullName.  A string is a sequence of characters.            *)
(***************************************************************************)
\* longest full name given to SplitFullName
MaxNameLen == 5
NameChars == {"/", "a", "b"}
NameStrings == UNION {[1..n -> NameChars] : n \in 0..MaxNameLen}

\* index of the first "/" of s, 0 when there is none
IndexSlash(s) ==
    IF \E i \in 1..Len(s) : s[i] = "/"
    THEN CHOOSE i \in 1..Len(s) : s[i] = "/" /\ \A j \in 1..(i - 1) : s[j] # "/"
    ELSE 0

\* strings.Split(s, "/"): the pieces between the separators, [s] when s
\* holds none
RECURSIVE StringsSplit(_)
StringsSplit(s) ==
    IF IndexSlash(s) = 0
    THEN <<s>>
    ELSE <<SubSeq(s, 1, IndexSlash(s) - 1)>>
            \o StringsSplit(SubSeq(s, IndexSlash(s) + 1, Len(s)))

\* strings.Join(parts, "/")
RECURSIVE StringsJoin(_)
StringsJoin(parts) ==
    IF Len(parts) = 0 THEN EmptyString
    ELSE IF Len(parts) = 1 THEN parts[1]
    ELSE parts[1] \o <<"/">> \o StringsJoin(Tail(parts))

\* a split at the first separator only
SplitAtFirstSlash(name) ==
    IF IndexSlash(name) = 0
    THEN <<EmptyString, name>>
    ELSE <<SubSeq(name, 1, IndexSlash(name) - 1),
           SubSeq(name, IndexSlash(name) + 1, Len(name))>>

\* SplitFullName: <<vendor, repo>>
SplitFullName(name) ==
    LET parts == StringsSplit(name)
    IN  IF Len(parts) = 0 THEN <<EmptyString, EmptyString>>
        ELSE IF Len(parts) = 1 THEN <<EmptyString, parts[1]>>
        ELSE <<StringsJoin(SubSeq(parts, 1, Len(parts) - 1)), parts[Len(parts)]>>

SplitParked ==
    /\ fullName = EmptyString
    /\ sfPc = "returned"
    /\ sfVendor = EmptyString
    /\ sfRepo = EmptyString

\* SplitFullName is called with a full name
SplitInit ==
    /\ fullName \in NameStrings
    /\ sfPc = "called"
    /\ sfVendor = EmptyString
    /\ sfRepo = EmptyString

\* vendor, repo := SplitFullName(fullName)
CallSplitFullName ==
    /\ sfPc = "called"
    /\ sfVendor' = SplitFullName(fullName)[1]
    /\ sfRepo' = SplitFullName(fullName)[2]
    /\ sfPc' = "returned"
    /\ UNCHANGED <<nonSfVars, fullName>>

SplitNext == CallSplitFullName

(***************************************************************************)
(* git.withAuthToken.                                                      *)
(***************************************************************************)
Hostnames == {"github.com", "gitlab.com", "gitlab.example.org", "bitbucket.org"}
\* values of a token; the empty string is EmptyString
TokenValues == {<<"t", "1">>, <<"t", "2">>}
\* githubapp.DefaultProvider() and provider.Token(): an error building the
\* provider, a nil provider, an error fetching the token, or a token
ProviderOutcomes ==
    {[kind |-> "providerErr", token |-> EmptyString],
     [kind |-> "nilProvider", token |-> EmptyString],
     [kind |-> "tokenErr", token |-> EmptyString]}
        \cup {[kind |-> "token", token |-> t] : t \in TokenValues}

NilAuth == [nil |-> TRUE]
\* &githttp.BasicAuth{Username: u, Password: p}
BasicAuth(u, p) == [nil |-> FALSE, Username |-> u, Password |-> p]

\* withAuthToken(hostname, _): [auth, err]
withAuthToken(host, env, prov) ==
    IF host = "github.com"
    THEN IF prov.kind = "providerErr"
         THEN [auth |-> NilAuth,
               err |-> FmtErrorWrap("github app auth unavailable", OtherError)]
         ELSE IF prov.kind = "nilProvider"
         THEN [auth |-> NilAuth,
               err |-> NewError("github app auth not configured for github.com")]
         ELSE IF prov.kind = "tokenErr"
         THEN [auth |-> NilAuth,
               err |-> FmtErrorWrap("github app token fetch failed", OtherError)]
         ELSE [auth |-> BasicAuth("x-access-token", prov.token), err |-> NilError]
    ELSE IF host = "gitlab.com" /\ env # EmptyString
    THEN [auth |-> BasicAuth("oauth2", env), err |-> NilError]
    ELSE [auth |-> NilAuth, err |-> FmtError("no auth method available for host")]

AuthParked ==
    /\ hostname = "bitbucket.org"
    /\ envGitLabToken = EmptyString
    /\ ghProvider = [kind |-> "nilProvider", token |-> EmptyString]
    /\ waPc = "returned"
    /\ waAuth = NilAuth
    /\ waErr = NilError

\* withAuthToken is called for a host, in an environment
AuthInit ==
    /\ hostname \in Hostnames
    /\ envGitLabToken \in {EmptyString} \cup TokenValues
    /\ ghProvider \in ProviderOutcomes
    /\ waPc = "called"
    /\ waAuth = NilAuth
    /\ waErr = NilError

\* auth, err := withAuthToken(hostname, gitURL)
CallWithAuthToken ==
    /\ waPc = "called"
    /\ waAuth' = withAuthToken(hostname, envGitLabToken, ghProvider).auth
    /\ waErr' = withAuthToken(hostname, envGitLabToken, ghProvider).err
    /\ waPc' = "returned"
    /\ UNCHANGED <<nonAuthVars, hostname, envGitLabToken, ghProvider>>

AuthNext == CallWithAuthToken

(***************************************************************************)
(* titleFromRepositoryName on its own.  A full name is the sequence of its *)
(* segments; the path of a URL is a sequence of segments, each a base name *)
(* with or without the suffix ".git".                                      *)
(***************************************************************************)
\* most segments of a full name, and of the path of a canonical URL
MaxNameSegments == 3
MaxPathSegments == 2
SegmentNames == {"owner", "repo"}
TitleNames == UNION {[1..n -> SegmentNames] : n \in 0..MaxNameSegments}
PathSegments == [base : SegmentNames, git : BOOLEAN]
TitlePaths == UNION {[1..n -> PathSegments] : n \in 0..MaxPathSegments}

TitleParked ==
    /\ tRepository = [Name |-> <<>>, CanonicalURL |-> [Path |-> <<>>]]
    /\ tPc = "returned"
    /\ tTitle = EmptyString

\* titleFromRepositoryName is called with a repository
TitleInit ==
    /\ tRepository \in [Name : TitleNames, CanonicalURL : [Path : TitlePaths]]
    /\ tPc = "called"
    /\ tTitle = EmptyString

\* got := titleFromRepositoryName(repository)
CallTitleFromRepositoryName ==
    /\ tPc = "called"
    /\ tTitle' = titleFromRepositoryName(tRepository)
    /\ tPc' = "returned"
    /\ UNCHANGED <<nonTitleVars, tRepository>>

TitleNext == CallTitleFromRepositoryName

(***************************************************************************)
(* gitlabRateLimitReset and the use gitlabCallWithRateLimitRetry makes of  *)
(* its answer, for one failed call.                                        *)
(***************************************************************************)
StatusCodes == {429, 404, 500}
\* time.Now() while the answer is classified
ResetNow == 1700000000
\* headers of an answer: none, a Retry-After of 3 seconds, a Retry-After
\* that does not parse, a RateLimit-Reset instant
ResetHeaders ==
    {<<>>,
     <<[key |-> "Retry-After", line |-> <<IntValue(3)>>]>>,
     <<[key |-> "Retry-After", line |-> <<TextValue>>]>>,
     <<[key |-> "RateLimit-Reset", line |-> <<IntValue(1700000005)>>]>>}

NilResponse == [nil |-> TRUE]
Response(code, hdrs) == [nil |-> FALSE, StatusCode |-> code, Header |-> hdrs]
Responses ==
    {NilResponse} \cup {Response(code, hdrs) : code \in StatusCodes, hdrs \in ResetHeaders}
\* *gitlab.ErrorResponse
ErrorResponse(resp) == [type |-> "ErrorResponse", Response |-> resp]
\* the errors a failed call returns
CallErrors == {NewError("rate limited")} \cup {ErrorResponse(resp) : resp \in Responses}

\* errResp.HasStatusCode(code)
HasStatusCode(errResp, code) ==
    ~errResp.Response.nil /\ errResp.Response.StatusCode = code

\* a classification that takes the answer of the header parse as its own
gitlabRateLimitResetOkFromHeaders(resp, err, now) ==
    IF ~resp.nil /\ resp.StatusCode = 429
    THEN RateLimitResetFromHeaders(resp.Header, now)
    ELSE IF err.type = "ErrorResponse" /\ HasStatusCode(err, 429)
    THEN RateLimitResetFromHeaders(err.Response.Header, now)
    ELSE [ok |-> FALSE, reset |-> ZeroTime]

\* gitlabRateLimitReset(resp, err): [reset, ok]
gitlabRateLimitReset(resp, err, now) ==
    IF ~resp.nil /\ resp.StatusCode = 429
    THEN IF RateLimitResetFromHeaders(resp.Header, now).ok
         THEN [ok |-> TRUE, reset |-> RateLimitResetFromHeaders(resp.Header, now).reset]
         ELSE [ok |-> TRUE, reset |-> ZeroTime]
    ELSE IF err.type = "ErrorResponse" /\ HasStatusCode(err, 429)
    THEN IF ~err.Response.nil /\ RateLimitResetFromHeaders(err.Response.Header, now).ok
         THEN [ok |-> TRUE,
               reset |-> RateLimitResetFromHeaders(err.Response.Header, now).reset]
         ELSE [ok |-> TRUE, reset |-> ZeroTime]
    ELSE [ok |-> FALSE, reset |-> ZeroTime]

ResetParked ==
    /\ rlResp = NilResponse
    /\ rlErr = NewError("rate limited")
    /\ rlAttempt = 0
    /\ rlPc = "returnErr"
    /\ rlReset = ZeroTime
    /\ rlOk = FALSE

\* result, resp, err = gitlabWithAPISlot(call) with err != nil, on the first
\* attempt or on the last one
ResetInit ==
    /\ rlResp \in Responses
    /\ rlErr \in CallErrors
    /\ rlAttempt \in {0, maxGitLabRateLimitRetries}
    /\ rlPc = "failed"
    /\ rlReset = ZeroTime
    /\ rlOk = FALSE

\* reset, ok := gitlabRateLimitReset(resp, err)
ClassifyFailure ==
    /\ rlPc = "failed"
    /\ rlReset' = gitlabRateLimitReset(rlResp, rlErr, ResetNow).reset
    /\ rlOk' = gitlabRateLimitReset(rlResp, rlErr, ResetNow).ok
    /\ rlPc' = "classified"
    /\ UNCHANGED <<nonResetVars, rlResp, rlErr, rlAttempt>>

\* if !ok { return err }; if attempt >= max { return RateLimitError };
\* else wait and retry
AfterClassification ==
    /\ rlPc = "classified"
    /\ rlPc' = IF ~rlOk THEN "returnErr"
               ELSE IF RetriesExhausted(rlAttempt) THEN "returnRateLimitError"
               ELSE "wait"
    /\ UNCHANGED <<nonResetVars, rlResp, rlErr, rlAttempt, rlReset, rlOk>>

ResetNext == ClassifyFailure \/ AfterClassification

(***************************************************************************)
(* lastCommitTimeWithRetry (scanner), the loop around the fetch of         *)
(* LastCommitTimeFromAPI.                                                  *)
(***************************************************************************)
\* calls of fetch() followed; the loop itself sets no limit
MaxFetches == 8
CommitProviders == {"github", "gitlab"}
\* a reset instant that is known lies behind or ahead of time.Now()
CommitResets == {"zero", "past", "future"}
\* what fetch() returns: a commit time, an error that is no RateLimitError,
\* or a RateLimitError
FetchErrors ==
    {NilError, OtherError, NewError("no commits found")}
        \cup {RateLimitError(p, r) : p \in CommitProviders, r \in CommitResets}

\* errors.As(err, &rateLimitErr)
ErrorsAsRateLimitError(err) == err.type = "RateLimitError"

LastCommitParked ==
    /\ lcProvider = "github"
    /\ lcPc = "done"
    /\ lcFetches = 0
    /\ lcRateLimited = 0
    /\ lcSleeps = 0
    /\ lcLastErr = NilError
    /\ lcErr = NilError

\* lastCommitTimeWithRetry(provider, fetch) is called
LastCommitInit ==
    /\ lcProvider \in CommitProviders
    /\ lcPc = "fetch"
    /\ lcFetches = 0
    /\ lcRateLimited = 0
    /\ lcSleeps = 0
    /\ lcLastErr = NilError
    /\ lcErr = NilError

\* a loop that calls fetch() again after every error
AfterFetchRetriesEveryError(err) ==
    IF err = NilError THEN "done"
    ELSE IF ErrorsAsRateLimitError(err) /\ err.Reset = "zero" THEN "done"
    ELSE IF ErrorsAsRateLimitError(err) /\ err.Reset = "future" THEN "sleep"
    ELSE "fetch"

\* what follows fetch() in the loop body: a return, `continue`, or
\* time.Sleep(wait); the loop is `for { ... }`, no count of attempts ends it
AfterFetch(err) ==
    IF err = NilError THEN "done"
    ELSE IF ~ErrorsAsRateLimitError(err) THEN "done"
    ELSE IF err.Reset = "zero" THEN "done"
    ELSE IF err.Reset = "past" THEN "fetch"
    ELSE "sleep"

\* one pass of the loop body: fetch(), then return, continue or sleep
LastCommitFetch ==
    /\ lcPc = "fetch"
    /\ lcFetches < MaxFetches
    /\ lcFetches' = lcFetches + 1
    /\ \E err \in FetchErrors :
        /\ err.type = "RateLimitError" => err.Provider = lcProvider
        /\ lcLastErr' = err
        /\ lcRateLimited' = IF ErrorsAsRateLimitError(err) THEN lcRateLimited + 1
                            ELSE lcRateLimited
        /\ lcPc' = AfterFetch(err)
        /\ lcErr' = IF AfterFetch(err) = "done" THEN err ELSE lcErr
    /\ UNCHANGED <<nonLcVars, lcProvider, lcSleeps>>

\* time.Sleep(wait) returns; the loop starts over
LastCommitSleep ==
    /\ lcPc = "sleep"
    /\ lcSleeps' = lcSleeps + 1
    /\ lcPc' = "fetch"
    /\ UNCHANGED <<nonLcVars, lcProvider, lcFetches, lcRateLimited, lcLastErr, lcErr>>

LastCommitNext == LastCommitFetch \/ LastCommitSleep

(***************************************************************************)
(* ScanRepo of the three scanners (scanner/github.go, scanner/gitlab.go,   *)
(* scanner/bitbucket.go).                                                  *)
(***************************************************************************)
\* API calls of one ScanRepo followed; the code sets no limit
MaxApiCalls == 8
ScanProviders == {"github", "gitlab", "bitbucket"}
ProviderRepos == [Private : BOOLEAN, Archived : BOOLEAN, DefaultBranch : {"", "main"}]
\* answers to Repositories.Get / GetProject / Repository.Get
GetOutcomes == {"ok", "rateLimit", "abuse", "error"}
\* answers to the lookup of publiccode.yml: a regular file, something that
\* is no regular file, 404, another status, no response at all, rate limits
LookupOutcomes == {"file", "notRegular", "notFound", "otherStatus", "transport",
                   "rateLimit", "abuse"}
NoLookup == "none"
RawURL == "raw/publiccode.yml"

SentRepository(repo, fileRawURL) ==
    [FileRawURL |-> fileRawURL, Private |-> repo.Private, Archived |-> repo.Archived]

ScanRepoParked ==
    /\ srProvider = "github"
    /\ srRepo = [Private |-> FALSE, Archived |-> FALSE, DefaultBranch |-> "main"]
    /\ srPc = "done"
    /\ srCalls = 0
    /\ srRateLimited = 0
    /\ srLookup = NoLookup
    /\ srSent = <<>>
    /\ srErr = NilError

\* scanner.ScanRepo(url, publisher, repositories) is called
ScanRepoInit ==
    /\ srProvider \in ScanProviders
    /\ srRepo \in ProviderRepos
    /\ srPc = "get"
    /\ srCalls = 0
    /\ srRateLimited = 0
    /\ srLookup = NoLookup
    /\ srSent = <<>>
    /\ srErr = NilError

\* if *repo.Private || *repo.Archived
GitHubRejects(repo) == repo.Private \/ repo.Archived

\* Retry: scanner.client.Repositories.Get, up to the check of Private/Archived
GitHubGet ==
    /\ srProvider = "github"
    /\ srPc = "get"
    /\ srCalls < MaxApiCalls
    /\ srCalls' = srCalls + 1
    /\ \E outcome \in GetOutcomes :
        CASE outcome \in {"rateLimit", "abuse"} ->
                /\ srPc' = "sleep"
                /\ srRateLimited' = srRateLimited + 1
                /\ UNCHANGED srErr
          [] outcome = "error" ->
                /\ srPc' = "done"
                /\ srErr' = FmtErrorWrap("can't get repo", OtherError)
                /\ srRateLimited' = 0
          [] outcome = "ok" ->
                /\ srRateLimited' = 0
                /\ IF GitHubRejects(srRepo)
                   THEN /\ srPc' = "done"
                        /\ srErr' = FmtError("skipping private or archived repo")
                   ELSE /\ srPc' = "contents"
                        /\ UNCHANGED srErr
    /\ UNCHANGED <<nonSrVars, srProvider, srRepo, srLookup, srSent>>

\* time.Sleep(time.Until(resp.Rate.Reset.Time)) or secondaryRateLimit(..),
\* then goto Retry
GitHubSleep ==
    /\ srProvider = "github"
    /\ srPc = "sleep"
    /\ srPc' = "get"
    /\ UNCHANGED <<nonSrVars, srProvider, srRepo, srCalls, srRateLimited, srLookup,
                   srSent, srErr>>

\* resp != nil && resp.StatusCode == http.StatusNotFound
GitHubNotFound(outcome) == outcome = "notFound"

\* scanner.client.Repositories.GetContents(.., "publiccode.yml", nil) and the
\* rest of ScanRepo
GitHubGetContents ==
    /\ srProvider = "github"
    /\ srPc = "contents"
    /\ srCalls < MaxApiCalls
    /\ srCalls' = srCalls + 1
    /\ \E outcome \in LookupOutcomes :
        /\ srLookup' = outcome
        /\ CASE outcome \in {"rateLimit", "abuse"} ->
                /\ srPc' = "sleep"
                /\ srRateLimited' = srRateLimited + 1
                /\ UNCHANGED <<srSent, srErr>>
          [] outcome \in {"notFound", "otherStatus", "transport"} ->
                /\ srPc' = "done"
                /\ srRateLimited' = 0
                /\ IF GitHubNotFound(outcome)
                   THEN /\ srSent' = Append(srSent, SentRepository(srRepo, ""))
                        /\ srErr' = NilError
                   ELSE /\ srErr' = FmtErrorWrap("failed to get publiccode.yml", OtherError)
                        /\ UNCHANGED srSent
          [] outcome = "notRegular" ->
                /\ srPc' = "done"
                /\ srRateLimited' = 0
                /\ srSent' = Append(srSent, SentRepository(srRepo, ""))
                /\ srErr' = NilError
          [] outcome = "file" ->
                /\ srPc' = "done"
                /\ srRateLimited' = 0
                /\ srSent' = Append(srSent, SentRepository(srRepo, RawURL))
                /\ srErr' = NilError
    /\ UNCHANGED <<nonSrVars, srProvider, srRepo>>

\* addProject(&url, *prj, publisher, repositories)
addProject(project, sent) ==
    IF project.DefaultBranch # ""
    THEN Append(sent, SentRepository(project, RawURL))
    ELSE sent

\* GitLabScanner.ScanRepo: GetProject inside gitlabCallWithRateLimitRetry,
\* then addProject
GitLabScanRepo ==
    /\ srProvider = "gitlab"
    /\ srPc = "get"
    /\ srCalls' = srCalls + 1
    /\ srPc' = "done"
    /\ \E outcome \in {"ok", "error"} :
        IF outcome = "error"
        THEN /\ srErr' = OtherError
             /\ UNCHANGED srSent
        ELSE /\ srErr' = NilError
             /\ srSent' = addProject(srRepo, srSent)
    /\ UNCHANGED <<nonSrVars, srProvider, srRepo, srRateLimited, srLookup>>

\* BitBucketScanner.ScanRepo: scanner.client.Repositories.Repository.Get(opt)
BitBucketGet ==
    /\ srProvider = "bitbucket"
    /\ srPc = "get"
    /\ srCalls' = srCalls + 1
    /\ \E outcome \in {"ok", "error"} :
        IF outcome = "error"
        THEN srPc' = "done" /\ srErr' = OtherError
        ELSE srPc' = "contents" /\ UNCHANGED srErr
    /\ UNCHANGED <<nonSrVars, srProvider, srRepo, srRateLimited, srLookup, srSent>>

\* BitBucketScanner.ScanRepo: Repository.GetFileContent(filesOpt) and the rest
BitBucketGetFileContent ==
    /\ srProvider = "bitbucket"
    /\ srPc = "contents"
    /\ srCalls' = srCalls + 1
    /\ srPc' = "done"
    /\ \E outcome \in {"file", "notFound", "otherStatus", "transport"} :
        /\ srLookup' = outcome
        /\ IF outcome # "file"
           THEN /\ srErr' = FmtErrorWrap("no publiccode.yml", OtherError)
                /\ UNCHANGED srSent
           ELSE /\ srErr' = NilError
                /\ srSent' = Append(srSent, SentRepository(srRepo, RawURL))
    /\ UNCHANGED <<nonSrVars, srProvider, srRepo, srRateLimited>>

ScanRepoNext ==
    \/ GitHubGet
    \/ GitHubSleep
    \/ GitHubGetContents
    \/ GitLabScanRepo
    \/ BitBucketGet
    \/ BitBucketGetFileContent

(***************************************************************************)
(* GitHubScanner.ScanGroupOfRepos (scanner/github.go): the loop over the   *)
(* pages of the listing.  ScanRepo of each listed repository is in the     *)
(* section above; its errors are logged and the loop goes on.              *)
(***************************************************************************)
\* pages a listing may have
MaxPages == 3
\* listing calls of one ScanGroupOfRepos followed; the code sets no limit
MaxListCalls == 7
ListPages == 1..MaxPages

\* the page a listing call with ListOptions.Page = page answers with
PageAnswered(page) == IF page = 0 THEN 1 ELSE page

\* resp.NextPage of the answer with page p of a listing of n pages
NextPage(p, n) == IF p < n THEN p + 1 ELSE 0

ScanGroupParked ==
    /\ sgIsOrg = TRUE
    /\ sgPages = 1
    /\ sgOptPage = 0
    /\ sgPc = "done"
    /\ sgListCalls = 0
    /\ sgFetched = [p \in ListPages |-> 0]
    /\ sgErr = NilError

\* scanner.ScanGroupOfRepos(url, publisher, repositories) is called with the
\* URL of an organization or of a user
ScanGroupInit ==
    /\ sgIsOrg \in BOOLEAN
    /\ sgPages \in ListPages
    /\ sgOptPage = 0
    /\ sgPc = "list"
    /\ sgListCalls = 0
    /\ sgFetched = [p \in ListPages |-> 0]
    /\ sgErr = NilError

\* scanner.client.Repositories.List(scanner.ctx, orgName, nil): no options,
\* the first page
UserListPage(optPage) == PageAnswered(0)

\* the page is scanned, then `if resp.NextPage == 0 { break }`,
\* `opt.Page = resp.NextPage`
ScanPage(p) ==
    /\ sgFetched' = [sgFetched EXCEPT ![p] = @ + 1]
    /\ IF NextPage(p, sgPages) = 0
       THEN sgPc' = "done" /\ sgErr' = NilError /\ UNCHANGED sgOptPage
       ELSE sgPc' = "list" /\ sgOptPage' = NextPage(p, sgPages) /\ UNCHANGED sgErr

\* one pass of the loop: Repositories.ListByOrg with opt, the fallback
\* Repositories.List when it fails, the scan of the page
GitHubListPage ==
    /\ sgPc = "list"
    /\ sgListCalls < MaxListCalls
    /\ \E outcome \in {"answer", "rateLimit", "abuse"} :
        CASE outcome \in {"rateLimit", "abuse"} ->
                /\ sgListCalls' = sgListCalls + 1
                /\ sgPc' = "sleep"
                /\ UNCHANGED <<sgOptPage, sgFetched, sgErr>>
          [] outcome = "answer" /\ sgIsOrg ->
                /\ sgListCalls' = sgListCalls + 1
                /\ ScanPage(PageAnswered(sgOptPage))
          [] outcome = "answer" /\ ~sgIsOrg ->
                \E listed \in BOOLEAN :
                    /\ sgListCalls' = sgListCalls + 2
                    /\ IF listed
                       THEN ScanPage(UserListPage(sgOptPage))
                       ELSE /\ sgPc' = "done"
                            /\ sgErr' = FmtErrorWrap("can't list repositories", OtherError)
                            /\ UNCHANGED <<sgOptPage, sgFetched>>
    /\ UNCHANGED <<nonSgVars, sgIsOrg, sgPages>>

\* time.Sleep(..) or secondaryRateLimit(..), then goto Retry
GitHubListSleep ==
    /\ sgPc = "sleep"
    /\ sgPc' = "list"
    /\ UNCHANGED <<nonSgVars, sgIsOrg, sgPages, sgOptPage, sgListCalls, sgFetched, sgErr>>

ScanGroupNext == GitHubListPage \/ GitHubListSleep

(***************************************************************************)
(* git.CloneRepository (git/clone_repository.go) as called by              *)
(* cloneAndLogActivity under the per-repository lock.                      *)
(***************************************************************************)
\* workers calling cloneAndLogActivity, one call each
NumCloneCallers == 2
CloneCallers == 1..NumCloneCallers
NoCloneCaller == 0
MirrorRepos ==
    { Repository(0, 0, "gitlab.com", nm) :
        nm \in { <<>>, <<"group", "subgroup", "a">>, <<"group", "subgroup", "b">> } }
MirrorPaths == { MirrorPath(r) : r \in MirrorRepos }
MirrorLockKeys == { repoLockKey(r) : r \in MirrorRepos }
CloneResults == {"none", "rejected", "cloned", "cloneFailed", "fetched", "fetchFailed"}

MirrorParked ==
    /\ mcRepo = [c \in CloneCallers |-> NoRepo]
    /\ mcPc = [c \in CloneCallers |-> "done"]
    /\ mcLockOwner = [k \in MirrorLockKeys |-> NoCloneCaller]
    /\ mirrorDirs = {}
    /\ mirrorsAtStart = {}
    /\ mcResult = [c \in CloneCallers |-> "none"]
    /\ cloneAttempts = [p \in MirrorPaths |-> 0]
    /\ clonesDone = [p \in MirrorPaths |-> 0]

\* every caller is about to call c.repoLocks.lock(repoLockKey(repository))
MirrorInit ==
    /\ mcRepo \in [CloneCallers -> MirrorRepos]
    /\ mcPc = [c \in CloneCallers |-> "lock"]
    /\ mcLockOwner = [k \in MirrorLockKeys |-> NoCloneCaller]
    /\ mirrorDirs \in SUBSET (MirrorPaths \ {MirrorPath(Repository(0, 0, "gitlab.com", <<>>))})
    /\ mirrorsAtStart = mirrorDirs
    /\ mcResult = [c \in CloneCallers |-> "none"]
    /\ cloneAttempts = [p \in MirrorPaths |-> 0]
    /\ clonesDone = [p \in MirrorPaths |-> 0]

\* a CloneRepository that is called without the per-repository lock
MirrorLockNeverHeld(k) == TRUE

\* lock.Lock() of the per-repository mutex blocks while it is held
MirrorLockFree(k) == mcLockOwner[k] = NoCloneCaller

\* unlock := c.repoLocks.lock(repoLockKey(repository))
McLock(c) ==
    /\ mcPc[c] = "lock"
    /\ MirrorLockFree(repoLockKey(mcRepo[c]))
    /\ mcLockOwner' = [mcLockOwner EXCEPT ![repoLockKey(mcRepo[c])] = c]
    /\ mcPc' = [mcPc EXCEPT ![c] = "enter"]
    /\ UNCHANGED <<nonMcVars, mcRepo, mirrorDirs, mirrorsAtStart, mcResult,
                   cloneAttempts, clonesDone>>

\* os.Stat(path): the folder exists, so a fetch is done instead of a clone
MirrorExists(path) == path \in mirrorDirs

\* CloneRepository up to os.Stat(path): the checks of name and gitURL,
\* withAuthToken, the choice between fetch and clone
McEnter(c) ==
    /\ mcPc[c] = "enter"
    /\ \E authErr \in BOOLEAN :
        IF mcRepo[c].name = <<>> \/ authErr
        THEN /\ mcResult' = [mcResult EXCEPT ![c] = "rejected"]
             /\ mcPc' = [mcPc EXCEPT ![c] = "unlock"]
        ELSE /\ mcPc' = [mcPc EXCEPT ![c] =
                    IF MirrorExists(MirrorPath(mcRepo[c])) THEN "fetch" ELSE "clone"]
             /\ UNCHANGED mcResult
    /\ UNCHANGED <<nonMcVars, mcRepo, mcLockOwner, mirrorDirs, mirrorsAtStart,
                   cloneAttempts, clonesDone>>

\* git.PlainClone(path, true, ..): the mirror exists when it succeeds; when
\* it fails the library may leave the folder or remove it
McPlainClone(c) ==
    /\ mcPc[c] = "clone"
    /\ cloneAttempts' = [cloneAttempts EXCEPT ![MirrorPath(mcRepo[c])] = @ + 1]
    /\ \E ok \in BOOLEAN, left \in BOOLEAN :
        IF ok
        THEN /\ mirrorDirs' = mirrorDirs \cup {MirrorPath(mcRepo[c])}
             /\ clonesDone' = [clonesDone EXCEPT ![MirrorPath(mcRepo[c])] = @ + 1]
             /\ mcResult' = [mcResult EXCEPT ![c] = "cloned"]
        ELSE /\ mirrorDirs' = IF left THEN mirrorDirs \cup {MirrorPath(mcRepo[c])}
                              ELSE mirrorDirs \ {MirrorPath(mcRepo[c])}
             /\ UNCHANGED clonesDone
             /\ mcResult' = [mcResult EXCEPT ![c] = "cloneFailed"]
    /\ mcPc' = [mcPc EXCEPT ![c] = "unlock"]
    /\ UNCHANGED <<nonMcVars, mcRepo, mcLockOwner, mirrorsAtStart>>

\* git.PlainOpen(path) and repo.Fetch(fetchOpts)
McFetch(c) ==
    /\ mcPc[c] = "fetch"
    /\ \E ok \in BOOLEAN :
        mcResult' = [mcResult EXCEPT ![c] = IF ok THEN "fetched" ELSE "fetchFailed"]
    /\ mcPc' = [mcPc EXCEPT ![c] = "unlock"]
    /\ UNCHANGED <<nonMcVars, mcRepo, mcLockOwner, mirrorDirs, mirrorsAtStart,
                   cloneAttempts, clonesDone>>

\* unlock()
McUnlock(c) ==
    /\ mcPc[c] = "unlock"
    /\ mcLockOwner' = [mcLockOwner EXCEPT ![repoLockKey(mcRepo[c])] = NoCloneCaller]
    /\ mcPc' = [mcPc EXCEPT ![c] = "done"]
    /\ UNCHANGED <<nonMcVars, mcRepo, mirrorDirs, mirrorsAtStart, mcResult,
                   cloneAttempts, clonesDone>>

MirrorNext ==
    \/ \E c \in CloneCallers : McLock(c)
    \/ \E c \in CloneCallers : McEnter(c)
    \/ \E c \in CloneCallers : McPlainClone(c)
    \/ \E c \in CloneCallers : McFetch(c)
    \/ \E c \in CloneCallers : McUnlock(c)

(***************************************************************************)
(* descriptionFromReadme (crawler).  A line is its prefix and the rest of  *)
(* it, already without surrounding white space; a string is the sequence   *)
(* of its pieces, the empty piece left out.                                *)
(***************************************************************************)
\* lines of a README
MaxReadmeLines == 4
ReadmeLine(prefix, text) == [prefix |-> prefix, text |-> text]
BlankLine == ReadmeLine("", "")
Space == ReadmeLine("", " ")
LineKinds ==
    {BlankLine, ReadmeLine("#", " Title"), ReadmeLine("<A", " href=..>"),
     ReadmeLine("[!", "[badge]"), ReadmeLine("", "first"), ReadmeLine("", "second")}
Readmes == UNION { [1..n -> LineKinds] : n \in 1..MaxReadmeLines }

\* strings.ToLower of a prefix
ToLower(prefix) == IF prefix = "<A" THEN "<a" ELSE prefix

\* isReadmeSkippableLine: headings, <img and <a tags, images and badges
isReadmeSkippableLine(line) ==
    \/ line.prefix = "#"
    \/ ToLower(line.prefix) \in {"<img", "<a"}
    \/ line.prefix \in {"![", "[!"}

\* strings.Join(elems, " ")
RECURSIVE JoinSpace(_)
JoinSpace(elems) ==
    IF Len(elems) = 0 THEN <<>>
    ELSE LET head == IF elems[1] = BlankLine THEN <<>> ELSE <<elems[1]>>
         IN  IF Len(elems) = 1 THEN head
             ELSE head \o <<Space>> \o JoinSpace(Tail(elems))

\* the loop `for i, line := range lines` from index i on
RECURSIVE ParagraphFrom(_, _, _)
ParagraphFrom(lines, i, paragraph) ==
    IF i > Len(lines) THEN paragraph
    ELSE IF lines[i] = BlankLine
         THEN IF Len(paragraph) > 0 THEN paragraph
              ELSE ParagraphFrom(lines, i + 1, paragraph)
         ELSE IF Len(paragraph) = 0 /\ isReadmeSkippableLine(lines[i])
              THEN ParagraphFrom(lines, i + 1, paragraph)
              ELSE ParagraphFrom(lines, i + 1, [paragraph EXCEPT ![i] = lines[i]])

\* descriptionFromReadme: paragraph := make([]string, len(lines)), the loop,
\* strings.Join(paragraph, " ")
descriptionFromReadme(lines) ==
    JoinSpace(ParagraphFrom(lines, 1, [i \in 1..Len(lines) |-> BlankLine]))

ReadmeParked ==
    /\ readmeLines = <<BlankLine>>
    /\ dfPc = "returned"
    /\ dfDescription = <<>>

\* git.ReadReadme has returned the contents of a README
ReadmeInit ==
    /\ readmeLines \in Readmes
    /\ dfPc = "called"
    /\ dfDescription = <<>>

\* repository.Description = descriptionFromReadme(readmeContents)
CallDescriptionFromReadme ==
    /\ dfPc = "called"
    /\ dfDescription' = descriptionFromReadme(readmeLines)
    /\ dfPc' = "returned"
    /\ UNCHANGED <<nonDfVars, readmeLines>>

ReadmeNext == CallDescriptionFromReadme

(***************************************************************************)
(* The shared githubCommitRateLimit state of the GitHub scanner and the    *)
(* workers calling GitHubScanner.lastCommitTimeFromAPI.                    *)
(***************************************************************************)
\* workers calling lastCommitTimeFromAPI, again and again
NumCommitWorkers == 2
\* ticks of the clock followed
MaxClock == 3
CommitWorkers == 1..NumCommitWorkers
\* Rate.Reset of a github.RateLimitError
CommitResetInstants == {ZeroTime} \cup 0..(MaxClock + 1)
\* RetryAfter of a github.AbuseRateLimitError, in ticks
RetryAfters == {1, 2}

\* a githubCommitRateLimitReset that never reports a pending reset
githubCommitRateLimitResetIgnored(reset, now) ==
    [ret |-> ZeroTime, reset |-> reset]

\* githubCommitRateLimitReset: the pending reset, or time.Time{} after
\* clearing a reset that has passed
githubCommitRateLimitReset(reset, now) ==
    IF reset = ZeroTime THEN [ret |-> ZeroTime, reset |-> reset]
    ELSE IF ~(now < reset) THEN [ret |-> ZeroTime, reset |-> ZeroTime]
    ELSE [ret |-> reset, reset |-> reset]

\* setGitHubCommitRateLimit: a zero reset is ignored, a later one recorded
setGitHubCommitRateLimit(current, reset) ==
    IF reset = ZeroTime THEN current
    ELSE IF reset > current THEN reset
    ELSE current

CommitLimitParked ==
    /\ ghNow = 0
    /\ ghCommitReset = ZeroTime
    /\ lwPc = [w \in CommitWorkers |-> "parked"]
    /\ lwEarly = [w \in CommitWorkers |-> FALSE]
    /\ lwRecordedLater = [w \in CommitWorkers |-> FALSE]
    /\ lwErr = [w \in CommitWorkers |-> NilError]

\* the scanner is created: no reset recorded
CommitLimitInit ==
    /\ ghNow = 0
    /\ ghCommitReset = ZeroTime
    /\ lwPc = [w \in CommitWorkers |-> "idle"]
    /\ lwEarly = [w \in CommitWorkers |-> FALSE]
    /\ lwRecordedLater = [w \in CommitWorkers |-> FALSE]
    /\ lwErr = [w \in CommitWorkers |-> NilError]

\* lastCommitTimeFromAPI up to the check of the shared reset: a
\* RateLimitError is returned while a reset is pending
LwCheck(w) ==
    /\ lwPc[w] = "idle"
    /\ LET r == githubCommitRateLimitReset(ghCommitReset, ghNow)
       IN  /\ ghCommitReset' = r.reset
           /\ IF r.ret # ZeroTime
              THEN /\ lwErr' = [lwErr EXCEPT ![w] = RateLimitError("github", r.ret)]
                   /\ UNCHANGED lwPc
              ELSE /\ lwPc' = [lwPc EXCEPT ![w] = "issue"]
                   /\ lwErr' = [lwErr EXCEPT ![w] = NilError]
    /\ lwRecordedLater' = [lwRecordedLater EXCEPT ![w] = FALSE]
    /\ lwEarly' = [lwEarly EXCEPT ![w] = FALSE]
    /\ UNCHANGED <<nonGhVars, ghNow>>

\* scanner.client.Repositories.ListCommits(..): the request is sent
LwIssue(w) ==
    /\ lwPc[w] = "issue"
    /\ lwPc' = [lwPc EXCEPT ![w] = "inFlight"]
    /\ lwEarly' = [lwEarly EXCEPT ![w] = (ghCommitReset # ZeroTime /\ ghNow < ghCommitReset)]
    /\ UNCHANGED <<nonGhVars, ghNow, ghCommitReset, lwRecordedLater, lwErr>>

\* the shared reset after a worker has recorded reset, and the workers past
\* their check that have not sent their request yet
Recorded(w, reset) ==
    /\ ghCommitReset' = setGitHubCommitRateLimit(ghCommitReset, reset)
    /\ lwRecordedLater' =
          [v \in CommitWorkers |->
              IF /\ v # w /\ lwPc[v] = "issue"
                 /\ setGitHubCommitRateLimit(ghCommitReset, reset) # ghCommitReset
              THEN TRUE ELSE lwRecordedLater[v]]

\* ListCommits returns: commits, a primary rate limit, a secondary rate
\* limit or another error
LwAnswer(w) ==
    /\ lwPc[w] = "inFlight"
    /\ lwPc' = [lwPc EXCEPT ![w] = "idle"]
    /\ \/ /\ \E err \in {NilError, OtherError, NewError("no commits found")} :
                lwErr' = [lwErr EXCEPT ![w] = err]
          /\ UNCHANGED <<ghCommitReset, lwRecordedLater>>
       \/ \E reset \in CommitResetInstants :
             /\ Recorded(w, reset)
             /\ lwErr' = [lwErr EXCEPT ![w] = RateLimitError("github", reset)]
       \/ \E retryAfter \in RetryAfters :
             /\ Recorded(w, ghNow + retryAfter)
             /\ lwErr' = [lwErr EXCEPT ![w] = RateLimitError("github", ghNow + retryAfter)]
    /\ UNCHANGED <<nonGhVars, ghNow, lwEarly>>

\* time passes
CommitClockTick ==
    /\ ghNow < MaxClock
    /\ ghNow' = ghNow + 1
    /\ UNCHANGED <<nonGhVars, ghCommitReset, lwPc, lwEarly, lwRecordedLater, lwErr>>

CommitLimitNext ==
    \/ \E w \in CommitWorkers : LwCheck(w)
    \/ \E w \in CommitWorkers : LwIssue(w)
    \/ \E w \in CommitWorkers : LwAnswer(w)
    \/ CommitClockTick

(***************************************************************************)
(* addGroupProjects on a GitLab group tree.                                *)
(***************************************************************************)
\* groups of the tree; group 1 is the scanned group
MaxGroups == 3
\* projects in the tree
NumProjects == 2
GitLabGroups == 1..MaxGroups
GitLabProjects == 1..NumProjects
\* the scanned group, and the parent of a group without one
RootGroup == CHOOSE g \in GitLabGroups : \A h \in GitLabGroups : g <= h
NoGroup == RootGroup - 1

\* whether group is an ancestor of g
RECURSIVE IsDescendant(_, _, _)
IsDescendant(parent, g, group) ==
    IF parent[g] = NoGroup THEN FALSE
    ELSE parent[g] = group \/ IsDescendant(parent, parent[g], group)

\* GET /groups/:id/descendant_groups
ListDescendantGroups(group) ==
    {g \in GitLabGroups : IsDescendant(glParent, g, group)}

\* GET /groups/:id/projects, with or without include_subgroups
ListGroupProjects(group, includeSubgroups) ==
    {p \in GitLabProjects :
        \/ glProjectOf[p] = group
        \/ includeSubgroups /\ glProjectOf[p] \in ListDescendantGroups(group)}

\* addProject(nil, *prj, publisher, repositories) for every listed project
addProjects(projects, sent) ==
    [p \in GitLabProjects |->
        IF p \in projects /\ glBranch[p] # "" THEN sent[p] + 1 ELSE sent[p]]

GroupTreeParked ==
    /\ glParent = [g \in GitLabGroups |-> NoGroup]
    /\ glProjectOf = [p \in GitLabProjects |-> RootGroup]
    /\ glBranch = [p \in GitLabProjects |-> ""]
    /\ agpStack = <<>>
    /\ agpSent = [p \in GitLabProjects |-> 0]
    /\ agpErr = "parked"

\* ScanGroupOfRepos calls addGroupProjects(*group, ..) on some group tree
GroupTreeInit ==
    /\ glParent \in [GitLabGroups -> {NoGroup} \cup GitLabGroups]
    /\ \A g \in GitLabGroups :
          IF g = RootGroup THEN glParent[g] = NoGroup
          ELSE glParent[g] \in RootGroup..(g - 1)
    /\ glProjectOf \in [GitLabProjects -> GitLabGroups]
    /\ glBranch \in [GitLabProjects -> {"", "main"}]
    /\ agpStack = <<[group |-> RootGroup, pc |-> "projects", groups |-> {}]>>
    /\ agpSent = [p \in GitLabProjects |-> 0]
    /\ agpErr = "running"

AgpTop == agpStack[Len(agpStack)]
AgpSetTop(frame) == [agpStack EXCEPT ![Len(agpStack)] = frame]

\* the first loop: ListGroupProjects with IncludeSubGroups, addProject for
\* every project of every page
AgpListGroupProjects ==
    /\ agpStack # <<>>
    /\ AgpTop.pc = "projects"
    /\ agpSent' = addProjects(ListGroupProjects(AgpTop.group, TRUE), agpSent)
    /\ agpStack' = AgpSetTop([AgpTop EXCEPT !.pc = "descendants"])
    /\ UNCHANGED <<nonGlVars, glParent, glProjectOf, glBranch, agpErr>>

\* the second loop: ListDescendantGroups
AgpListDescendantGroups ==
    /\ agpStack # <<>>
    /\ AgpTop.pc = "descendants"
    /\ agpStack' = AgpSetTop([AgpTop EXCEPT !.pc = "groups",
                                            !.groups = ListDescendantGroups(AgpTop.group)])
    /\ UNCHANGED <<nonGlVars, glParent, glProjectOf, glBranch, agpSent, agpErr>>

\* for _, g := range groups: addGroupProjects(*g, ..)
AgpRecurse ==
    /\ agpStack # <<>>
    /\ AgpTop.pc = "groups"
    /\ \E g \in AgpTop.groups :
          agpStack' = Append(AgpSetTop([AgpTop EXCEPT !.groups = @ \ {g}]),
                             [group |-> g, pc |-> "projects", groups |-> {}])
    /\ UNCHANGED <<nonGlVars, glParent, glProjectOf, glBranch, agpSent, agpErr>>

\* return nil after the last descendant group
AgpReturn ==
    /\ agpStack # <<>>
    /\ AgpTop.pc = "groups"
    /\ AgpTop.groups = {}
    /\ agpStack' = SubSeq(agpStack, 1, Len(agpStack) - 1)
    /\ agpErr' = IF Len(agpStack) = 1 THEN "nil" ELSE agpErr
    /\ UNCHANGED <<nonGlVars, glParent, glProjectOf, glBranch, agpSent>>

\* a listing fails: the error is returned through every active call
AgpFail ==
    /\ agpStack # <<>>
    /\ AgpTop.pc \in {"projects", "descendants"}
    /\ agpStack' = <<>>
    /\ agpErr' = "error"
    /\ UNCHANGED <<nonGlVars, glParent, glProjectOf, glBranch, agpSent>>

GroupTreeNext ==
    \/ AgpListGroupProjects
    \/ AgpListDescendantGroups
    \/ AgpRecurse
    \/ AgpReturn
    \/ AgpFail

Init == CrawlInit /\ TokenInit /\ RetryInit /\ HeaderParked /\ ProcessRepoParked /\ SplitParked /\ AuthParked /\ TitleParked /\ ResetParked /\ LastCommitParked /\ ScanRepoParked /\ ScanGroupParked /\ MirrorParked /\ ReadmeParked /\ CommitLimitParked /\ GroupTreeParked

Next ==
    \/ GoScanPublisher
    \/ CallScanPublisher
    \/ ReturnScanPublisher
    \/ \E p \in Publishers : ScanSend(p)
    \/ \E p \in Publishers : ScanReturn(p)
    \/ StartCloser
    \/ CloseRepositories
    \/ StartWorkers
    \/ ForwardRecv
    \/ \E w \in Workers : ForwardSend(w)
    \/ CloseReposChan
    \/ \E w \in Workers : WorkerExit(w)
    \/ CrawlReturn
    \/ \E w \in Workers : EnsurePubliccodeFile(w)
    \/ \E w \in Workers : LockRegistry(w)
    \/ \E w \in Workers : RegisterLock(w)
    \/ \E w \in Workers : AcquireRepoLock(w)
    \/ \E w \in Workers : CloneRepository(w)
    \/ \E w \in Workers : ReleaseRepoLock(w)
    \/ \E w \in Workers : CalculateRepoActivity(w)
    \/ \E w \in Workers : PostRepository(w)

Spec == Init /\ [][Next]_vars

\* the token provider alone, with no crawl running
InitToken == CrawlParked /\ TokenInit /\ RetryInit /\ HeaderParked /\ ProcessRepoParked /\ SplitParked /\ AuthParked /\ TitleParked /\ ResetParked /\ LastCommitParked /\ ScanRepoParked /\ ScanGroupParked /\ MirrorParked /\ ReadmeParked /\ CommitLimitParked /\ GroupTreeParked

SpecToken == InitToken /\ [][TokenNext]_vars

\* the GitLab retry loop alone
InitRetry == CrawlParked /\ TokenInit /\ RetryInit /\ HeaderParked /\ ProcessRepoParked /\ SplitParked /\ AuthParked /\ TitleParked /\ ResetParked /\ LastCommitParked /\ ScanRepoParked /\ ScanGroupParked /\ MirrorParked /\ ReadmeParked /\ CommitLimitParked /\ GroupTreeParked

SpecRetry == InitRetry /\ [][RetryNext]_vars

\* the header parser alone, applied to every header combination
InitHeaders == CrawlParked /\ TokenInit /\ RetryInit /\ HeaderInit /\ ProcessRepoParked /\ SplitParked /\ AuthParked /\ TitleParked /\ ResetParked /\ LastCommitParked /\ ScanRepoParked /\ ScanGroupParked /\ MirrorParked /\ ReadmeParked /\ CommitLimitParked /\ GroupTreeParked

SpecHeaders == InitHeaders /\ [][HeaderNext]_vars

\* repositories a publisher sends when ScanPublisher is followed step by step
MaxScanRepos == 1

\* the crawl of part_007 (go c.ScanPublisher) with ScanPublisher followed
\* through its switch, its organization scan and its loop over
\* publisher.Repositories
InitScan ==
    /\ inlineScan = FALSE
    /\ DryRun \in BOOLEAN
    /\ discovered \in [Publishers -> 0..MaxScanRepos]
    /\ CrawlStart
    /\ TokenInit /\ RetryInit /\ HeaderParked /\ ProcessRepoParked /\ SplitParked /\ AuthParked /\ TitleParked /\ ResetParked /\ LastCommitParked /\ ScanRepoParked /\ ScanGroupParked /\ MirrorParked /\ ReadmeParked /\ CommitLimitParked /\ GroupTreeParked

ScanNext ==
    \/ GoScanPublisher
    \/ \E p \in Publishers : DispatchOrg(p)
    \/ \E p \in Publishers : OrgScanReturn(p)
    \/ \E p \in Publishers : OrgOrListedSend(p)
    \/ \E p \in Publishers : ListedLoopReturn(p)
    \/ StartCloser
    \/ CloseRepositories
    \/ StartWorkers
    \/ ForwardRecv
    \/ \E w \in Workers : ForwardSend(w)
    \/ CloseReposChan
    \/ \E w \in Workers : WorkerExit(w)
    \/ CrawlReturn
    \/ \E w \in Workers : EnsurePubliccodeFile(w)
    \/ \E w \in Workers : LockRegistry(w)
    \/ \E w \in Workers : RegisterLock(w)
    \/ \E w \in Workers : AcquireRepoLock(w)
    \/ \E w \in Workers : CloneRepository(w)
    \/ \E w \in Workers : ReleaseRepoLock(w)
    \/ \E w \in Workers : CalculateRepoActivity(w)
    \/ \E w \in Workers : PostRepository(w)

SpecScan == InitScan /\ [][ScanNext]_vars

\* SplitFullName applied to every full name up to MaxNameLen
InitSplit ==
    CrawlParked /\ TokenInit /\ RetryInit /\ HeaderParked /\ ProcessRepoParked /\ SplitInit /\ AuthParked /\ TitleParked /\ ResetParked /\ LastCommitParked /\ ScanRepoParked /\ ScanGroupParked /\ MirrorParked /\ ReadmeParked /\ CommitLimitParked /\ GroupTreeParked

SpecSplit == InitSplit /\ [][SplitNext]_vars

\* withAuthToken called for every host and environment
InitAuth ==
    /\ CrawlParked /\ TokenInit /\ RetryInit /\ HeaderParked /\ ProcessRepoParked
    /\ SplitParked /\ AuthInit /\ TitleParked /\ ResetParked /\ LastCommitParked /\ ScanRepoParked /\ ScanGroupParked /\ MirrorParked /\ ReadmeParked /\ CommitLimitParked /\ GroupTreeParked

SpecAuth == InitAuth /\ [][AuthNext]_vars

\* titleFromRepositoryName applied to every name and canonical URL
InitTitle ==
    /\ CrawlParked /\ TokenInit /\ RetryInit /\ HeaderParked /\ ProcessRepoParked
    /\ SplitParked /\ AuthParked /\ TitleInit /\ ResetParked /\ LastCommitParked /\ ScanRepoParked /\ ScanGroupParked /\ MirrorParked /\ ReadmeParked /\ CommitLimitParked /\ GroupTreeParked

SpecTitle == InitTitle /\ [][TitleNext]_vars

\* one failed GitLab call classified, for every answer
InitReset ==
    /\ CrawlParked /\ TokenInit /\ RetryInit /\ HeaderParked /\ ProcessRepoParked
    /\ SplitParked /\ AuthParked /\ TitleParked /\ ResetInit /\ LastCommitParked /\ ScanRepoParked /\ ScanGroupParked /\ MirrorParked /\ ReadmeParked /\ CommitLimitParked /\ GroupTreeParked

SpecReset == InitReset /\ [][ResetNext]_vars

\* one call of lastCommitTimeWithRetry, for every sequence of fetch results
InitLastCommit ==
    /\ CrawlParked /\ TokenInit /\ RetryInit /\ HeaderParked /\ ProcessRepoParked
    /\ SplitParked /\ AuthParked /\ TitleParked /\ ResetParked /\ LastCommitInit /\ ScanRepoParked /\ ScanGroupParked /\ MirrorParked /\ ReadmeParked /\ CommitLimitParked /\ GroupTreeParked

SpecLastCommit == InitLastCommit /\ [][LastCommitNext]_vars

\* one call of ScanRepo of each scanner, for every answer of the provider
InitScanRepo ==
    /\ CrawlParked /\ TokenInit /\ RetryInit /\ HeaderParked /\ ProcessRepoParked
    /\ SplitParked /\ AuthParked /\ TitleParked /\ ResetParked /\ LastCommitParked
    /\ ScanRepoInit /\ ScanGroupParked /\ MirrorParked /\ ReadmeParked /\ CommitLimitParked /\ GroupTreeParked

SpecScanRepo == InitScanRepo /\ [][ScanRepoNext]_vars

\* one call of GitHubScanner.ScanGroupOfRepos, for an organization and for a
\* user, with listings of every length
InitScanGroup ==
    /\ CrawlParked /\ TokenInit /\ RetryInit /\ HeaderParked /\ ProcessRepoParked
    /\ SplitParked /\ AuthParked /\ TitleParked /\ ResetParked /\ LastCommitParked
    /\ ScanRepoParked /\ ScanGroupInit /\ MirrorParked /\ ReadmeParked /\ CommitLimitParked /\ GroupTreeParked

SpecScanGroup == InitScanGroup /\ [][ScanGroupNext]_vars

\* the two retry loops of the scanner: calls of gitlabCallWithRateLimitRetry,
\* or one call of lastCommitTimeWithRetry
InitRetryLoops ==
    /\ CrawlParked /\ TokenInit /\ HeaderParked /\ ProcessRepoParked
    /\ \/ RetryInit /\ LastCommitParked
       \/ RetryParked /\ LastCommitInit
    /\ SplitParked /\ AuthParked /\ TitleParked /\ ResetParked /\ ScanRepoParked /\ ScanGroupParked /\ MirrorParked /\ ReadmeParked /\ CommitLimitParked /\ GroupTreeParked

RetryLoopsNext == RetryNext \/ LastCommitNext

SpecRetryLoops == InitRetryLoops /\ [][RetryLoopsNext]_vars

\* workers that clone or fetch the mirrors of their repositories
InitMirror ==
    /\ CrawlParked /\ TokenInit /\ RetryInit /\ HeaderParked /\ ProcessRepoParked
    /\ SplitParked /\ AuthParked /\ TitleParked /\ ResetParked /\ LastCommitParked
    /\ ScanRepoParked /\ ScanGroupParked /\ MirrorInit /\ ReadmeParked /\ CommitLimitParked /\ GroupTreeParked

SpecMirror == InitMirror /\ [][MirrorNext]_vars

\* descriptionFromReadme applied to every README of the bounded set
InitReadme ==
    /\ CrawlParked /\ TokenInit /\ RetryInit /\ HeaderParked /\ ProcessRepoParked
    /\ SplitParked /\ AuthParked /\ TitleParked /\ ResetParked /\ LastCommitParked
    /\ ScanRepoParked /\ ScanGroupParked /\ MirrorParked /\ ReadmeInit /\ CommitLimitParked /\ GroupTreeParked

SpecReadme == InitReadme /\ [][ReadmeNext]_vars

\* gitlabCallWithRateLimitRetry while all slots are taken by other calls,
\* which return one after the other
InitBusySlots ==
    /\ CrawlParked /\ TokenInit /\ RetryBusyInit /\ HeaderParked /\ ProcessRepoParked
    /\ SplitParked /\ AuthParked /\ TitleParked /\ ResetParked /\ LastCommitParked
    /\ ScanRepoParked /\ ScanGroupParked /\ MirrorParked /\ ReadmeParked /\ CommitLimitParked /\ GroupTreeParked

BusySlotsNext ==
    \/ RetryNext
    \/ \E c \in SlotCallers : SlotRelease(c)

SpecBusySlots == InitBusySlots /\ [][BusySlotsNext]_vars

\* workers sharing githubCommitRateLimit
InitCommitLimit ==
    /\ CrawlParked /\ TokenInit /\ RetryInit /\ HeaderParked /\ ProcessRepoParked
    /\ SplitParked /\ AuthParked /\ TitleParked /\ ResetParked /\ LastCommitParked
    /\ ScanRepoParked /\ ScanGroupParked /\ MirrorParked /\ ReadmeParked
    /\ CommitLimitInit /\ GroupTreeParked

SpecCommitLimit == InitCommitLimit /\ [][CommitLimitNext]_vars

\* one GitLab group scan
InitGroupTree ==
    /\ CrawlParked /\ TokenInit /\ RetryInit /\ HeaderParked /\ ProcessRepoParked
    /\ SplitParked /\ AuthParked /\ TitleParked /\ ResetParked /\ LastCommitParked
    /\ ScanRepoParked /\ ScanGroupParked /\ MirrorParked /\ ReadmeParked
    /\ CommitLimitParked /\ GroupTreeInit

SpecGroupTree == InitGroupTree /\ [][GroupTreeNext]_vars

\* gitlabWithAPISlot called by more goroutines than there are slots
InitSlots == CrawlParked /\ TokenInit /\ RetryInit /\ HeaderParked /\ ProcessRepoParked /\ SplitParked /\ AuthParked /\ TitleParked /\ ResetParked /\ LastCommitParked /\ ScanRepoParked /\ ScanGroupParked /\ MirrorParked /\ ReadmeParked /\ CommitLimitParked /\ GroupTreeParked

SpecSlots == InitSlots /\ [][SlotNext]_vars

\* one ProcessRepo call on every kind of repository, in both modes
InitProcessRepo ==
    /\ inlineScan = FALSE
    /\ DryRun \in BOOLEAN
    /\ discovered = [p \in Publishers |-> 0]
    /\ CrawlStart
    /\ TokenInit /\ RetryInit /\ HeaderParked /\ ProcessRepoInit /\ SplitParked /\ AuthParked /\ TitleParked /\ ResetParked /\ LastCommitParked /\ ScanRepoParked /\ ScanGroupParked /\ MirrorParked /\ ReadmeParked /\ CommitLimitParked /\ GroupTreeParked

SpecProcessRepo == InitProcessRepo /\ [][ProcessRepoNext]_vars

(***************************************************************************)
(* Fair scheduling: every goroutine that can take a step eventually does.  *)
(***************************************************************************)
MainStep ==
    \/ GoScanPublisher \/ CallScanPublisher \/ ReturnScanPublisher
    \/ StartCloser \/ StartWorkers \/ ForwardRecv
    \/ (\E w \in Workers : ForwardSend(w))
    \/ CloseReposChan \/ CrawlReturn

PublisherStep(p) == ScanSend(p) \/ ScanReturn(p)

WorkerStep(w) ==
    \/ WorkerExit(w) \/ EnsurePubliccodeFile(w) \/ LockRegistry(w)
    \/ RegisterLock(w) \/ AcquireRepoLock(w) \/ CloneRepository(w)
    \/ ReleaseRepoLock(w) \/ CalculateRepoActivity(w) \/ PostRepository(w)

FairSpec ==
    /\ Spec
    /\ WF_vars(MainStep)
    /\ WF_vars(CloseRepositories)
    /\ \A p \in Publishers : WF_vars(PublisherStep(p))
    /\ \A w \in Workers : WF_vars(WorkerStep(w))

(***************************************************************************)
(* Properties of the crawl pipeline.                                       *)
(***************************************************************************)
InClone(w) == wPc[w] = "clone"

\* C1: two workers are never inside the clone/fetch step at the same time
\* for repositories with the same host/vendor/repo lock key.
C1_CloneSerializedPerKey ==
    \A w1, w2 \in Workers :
        (w1 # w2 /\ InClone(w1) /\ InClone(w2))
            => repoLockKey(wRepo[w1]) # repoLockKey(wRepo[w2])

\* C1, second half: two workers whose repositories have different keys are
\* inside the clone/fetch step at the same time.
C1_ParallelDifferentKeys ==
    \E w1, w2 \in Workers :
        /\ w1 # w2 /\ InClone(w1) /\ InClone(w2)
        /\ repoLockKey(wRepo[w1]) # repoLockKey(wRepo[w2])

\* C2: the shared channel is closed at most once, only after every
\* ScanPublisher task has returned (so no scanner can send after the close),
\* and it has been closed exactly once when CrawlPublishers returns.
C2_CloseOnceAfterWriters ==
    /\ closeCount <= 1
    /\ closeCount > 0 => \A p \in Publishers : pubPc[p] = "done"
    /\ mainPc = "returned" => closeCount = 1

C2_ClosedAfterScans ==
    /\ closeCount = 1
    /\ \A p \in Publishers : pubPc[p] = "done" /\ emitted[p] > 0

\* number of copies of repository id r in the buffer of the shared channel
RECURSIVE CountInChannel(_, _)
CountInChannel(ch, r) ==
    IF Len(ch) = 0 THEN 0
    ELSE (IF Head(ch).id = r THEN 1 ELSE 0) + CountInChannel(Tail(ch), r)

Sent(r) == r[2] <= emitted[r[1]]

\* C4: every repository sent on the shared channel is, at any time, in
\* exactly one place (channel buffer, forwarding loop, or handed to
\* ProcessRepo), is handed to ProcessRepo at most once, and has been handed
\* to it exactly once when the run returns; nothing unsent is processed.
C4_ExactlyOnce ==
    \A r \in RepoIds :
        /\ Sent(r) =>
              CountInChannel(repositories, r)
                + (IF forwardRepo.id = r THEN 1 ELSE 0)
                + processedCount[r] = 1
        /\ ~Sent(r) => processedCount[r] = 0
        /\ Cardinality({w \in Workers : wRepo[w].id = r}) <= 1
        /\ (mainPc = "returned" /\ Sent(r)) => processedCount[r] = 1

C4_AllProcessedOnce ==
    /\ mainPc = "returned"
    /\ \A r \in RepoIds : Sent(r) /\ processedCount[r] = 1

\* C5: under fair scheduling CrawlPublishers eventually returns.
C5_EventuallyReturns == <>(mainPc = "returned")

(***************************************************************************)
(* Properties of the token provider.                                       *)
(***************************************************************************)
AllReturned == \A c \in Callers : cPc[c] = "done"
AllStartedEmpty == \A c \in Callers : cStartedEmpty[c]
SameTokenForAll ==
    \A c1, c2 \in Callers :
        cResult[c1].tok = cResult[c2].tok /\ cResult[c1].exp = cResult[c2].exp

C6_RetryBudget ==
    \A g \in GitLabCalls :
        /\ gCalls[g] <= maxGitLabRateLimitRetries + 1
        /\ (gPc[g] = "done" /\ gCtx[g] = "active" /\ gCalls[g] > 0
                /\ gRateLimited[g] = gCalls[g])
              => /\ gCalls[g] = maxGitLabRateLimitRetries + 1
                 /\ gErr[g].type = "RateLimitError"
        /\ gErr[g].type = "RateLimitError"
              => /\ gPc[g] = "done"
                 /\ gCalls[g] = maxGitLabRateLimitRetries + 1
                 /\ gRateLimited[g] = gCalls[g]
                 /\ gErr[g].Provider = "GitLab"
                 /\ ErrorsIs(gErr[g], "ErrLastCommitRateLimited")
        /\ (gCalls[g] > gRateLimited[g] /\ gPc[g] # "inCall")
              => /\ gPc[g] = "done"
                 /\ gCalls[g] = gRateLimited[g] + 1

C6_Exhausted ==
    \E g \in GitLabCalls :
        /\ gPc[g] = "done"
        /\ gErr[g].type = "RateLimitError"
        /\ gCalls[g] = maxGitLabRateLimitRetries + 1

\* C7: when the context is already cancelled as the retry loop is entered,
\* the wrapped call is never invoked and the returned error matches the
\* context's error.
C7_CancelledBeforeStart ==
    \A g \in GitLabCalls :
        (gPc[g] # "idle" /\ gCtxAtStart[g] # "active")
            => /\ gCalls[g] = 0
               /\ gPc[g] \in {"loopTop", "done"}
               /\ gPc[g] = "done" => ErrorsIs(gErr[g], gCtxAtStart[g])

C7_SkippedCall ==
    \E g \in GitLabCalls :
        /\ gPc[g] = "done" /\ gCtxAtStart[g] = "Canceled"
        /\ gCalls[g] = 0 /\ gErr[g] = ContextError("Canceled")

\* C8: when the context ends while the loop waits out a backoff (its timer
\* still pending), the wait never runs to the end of its nominal duration,
\* no further attempt of the call is made and the context's own error is
\* returned.
C8_CancelDuringWait ==
    \A g \in GitLabCalls :
        gCancelledInWait[g]
            => /\ gPc[g] \in {"wait", "done"}
               /\ gTimer[g] = "pending"
               /\ gPc[g] = "done" =>
                     /\ gErr[g] = ContextError(gCtx[g])
                     /\ ErrorsIs(gErr[g], gCtx[g])

C8_WaitCutShort ==
    \E g \in GitLabCalls :
        /\ gCancelledInWait[g] /\ gPc[g] = "done"
        /\ gTimer[g] = "pending"
        /\ gErr[g] = ContextError("DeadlineExceeded")
        /\ gCalls[g] = 1

(***************************************************************************)
(* Properties of the rate-limit header parser.                             *)
(***************************************************************************)
\* every value carried by the lines of a key, repeated or comma-joined
AllValuesOf(key) ==
    { v \in HeaderValues :
        \E i \in 1..Len(headers) :
            /\ headers[i].key = key
            /\ \E j \in 1..Len(headers[i].line) : headers[i].line[j] = v }

\* the instants the carried values denote, each value taken on its own
CandidateInstants ==
    { v.n : v \in { u \in AllValuesOf("RateLimit-Reset")
                            \cup AllValuesOf("X-RateLimit-Reset") : u.kind = "int" } }
        \cup { hNow + v.n : v \in { u \in AllValuesOf("Retry-After") :
                                      /\ u.kind = "int"
                                      /\ u.n > 0
                                      /\ u.n <= maxRetryAfterSeconds } }
        \cup { v.n : v \in { u \in AllValuesOf("Retry-After") : u.kind = "date" } }

ValidCandidates == { t \in CandidateInstants : t <= hNow + maxRateLimitResetDelay }

Latest(S) == CHOOSE t \in S : \A u \in S : u <= t

\* C9: for every combination of RateLimit-Reset, X-RateLimit-Reset and
\* Retry-After lines, repeated or comma-joined, the parser returns the
\* latest of the valid candidate instants, and reports false only when no
\* candidate is valid.
C9_LatestValidCandidate ==
    hPc = "parsed" =>
        /\ hOk <=> ValidCandidates # {}
        /\ hOk => hReset = Latest(ValidCandidates)

\* C10: the parser never returns an instant more than 24 hours after the
\* current time, never one derived from negative Unix seconds in
\* RateLimit-Reset / X-RateLimit-Reset or from a negative Retry-After delta,
\* and never one derived from a Retry-After delta above 86400 seconds.
C10_BoundedNeverNegative ==
    (hPc = "parsed" /\ hOk) =>
        /\ hReset <= hNow + maxRateLimitResetDelay
        /\ \A v \in AllValuesOf("RateLimit-Reset") \cup AllValuesOf("X-RateLimit-Reset") :
              (v.kind = "int" /\ v.n < 0) => hReset # TimeUnix(v.n)
        /\ \A v \in AllValuesOf("Retry-After") :
              (v.kind = "int" /\ (v.n < 0 \/ v.n > maxRetryAfterSeconds))
                  => hReset - hNow # v.n

(***************************************************************************)
(* Properties of ScanPublisher's error handling.                           *)
(***************************************************************************)
\* every repository the publisher's scan finds has been sent and handed to
\* ProcessRepo once
FullyProcessed(p) ==
    /\ pubPc[p] = "done"
    /\ emitted[p] = discovered[p]
    /\ \A n \in 1..discovered[p] : processedCount[<<p, n>>] = 1

FetchFailed == prFetch # NoFetch /\ ~(prFetch.code = 200 /\ ~prFetch.err)

\* C12: when the fetch of the listed metadata file does not answer 200
\* (another status, or a transport error) ProcessRepo goes on with the file
\* taken as absent: the title is backfilled from the name, the description
\* is filled in, exactly one record is posted, and it carries a nil
\* metadata-file URL.
C12_UnreachableFileIsAbsent ==
    (FetchFailed /\ ~DryRun) =>
        /\ ~prHasPubliccode
        /\ prRepository.FileRawURL = EmptyString
        /\ prPc = "returned" =>
              /\ Len(prPosts) = 1
              /\ prPosts[1].publiccodeURL = NilPtr
              /\ ~prPosts[1].desc.nil /\ prPosts[1].desc.v # EmptyString
              /\ prRepository.Name # <<>> =>
                    /\ prRepository.Title # EmptyString
                    /\ prPosts[1].title = Ptr(prRepository.Title)

C12_PostedWithoutFile ==
    /\ prPc = "returned" /\ prFetch = [err |-> FALSE, code |-> 404]
    /\ Len(prPosts) = 1
    /\ prPosts[1].publiccodeURL = NilPtr
    /\ prPosts[1].title = Ptr(<<"repo">>)
    /\ prPosts[1].desc = Ptr(<<"first paragraph">>)

(***************************************************************************)
(* Properties of the GitLab API limiter.                                   *)
(***************************************************************************)
\* the GitLab API calls in flight: call() invoked and not yet returned
GitLabCallsInFlight ==
    Cardinality({c \in SlotCallers : sPc[c] = "inCall"})
        + Cardinality({g \in GitLabCalls : gPc[g] = "inCall"})

\* C13: at every moment at most defaultGitLabAPIConcurrency (4) GitLab API
\* calls are in flight, however many goroutines are making such calls.
C13_AtMostFourInFlight ==
    /\ GitLabCallsInFlight <= defaultGitLabAPIConcurrency
    /\ GitLabCallsInFlight = gitlabAPILimiter

C13_FullWithWaiters ==
    /\ GitLabCallsInFlight = defaultGitLabAPIConcurrency
    /\ Cardinality({c \in SlotCallers : sPc[c] = "acquire"}) >= 2

(***************************************************************************)
(* Properties of the per-repository locks.                                 *)
(***************************************************************************)
\* the per-repository locks worker w holds
LocksHeldBy(w) == {k \in LockKeys : lockOwner[k] = w}

\* C14: a worker holds a per-repository lock only from lock.Lock() to the
\* unlock() that follows the return of git.CloneRepository, whether the
\* clone failed or not: it holds at most the lock of its own repository and
\* only inside the clone/fetch step, and holds none while it computes the
\* activity, reads the README or posts to the catalog API.
C14_LockOnlyAroundClone ==
    \A w \in Workers :
        /\ LocksHeldBy(w) # {} =>
              /\ wPc[w] \in {"clone", "unlock"}
              /\ LocksHeldBy(w) = {repoLockKey(wRepo[w])}
        /\ wPc[w] \in {"clone", "unlock"} => LocksHeldBy(w) = {repoLockKey(wRepo[w])}
        /\ wPc[w] \in {"activity", "post"} => LocksHeldBy(w) = {}

C14_ReleasedAfterFailedClone ==
    \E w1, w2 \in Workers :
        /\ wPc[w1] = "activity" /\ wCloneErr[w1] /\ LocksHeldBy(w1) = {}
        /\ wPc[w2] = "clone" /\ repoLockKey(wRepo[w2]) = repoLockKey(wRepo[w1])

\* C15: the registry lock r.mu is held only for the lookup in the map, never
\* by a worker that waits for or holds a per-repository lock; so its holder
\* can always go on and release it, and a worker waiting for the lock of a
\* key nobody holds obtains it whatever other keys are held by running
\* clones.
C15_RegistryLockShortHeld ==
    /\ muHolder # NoWorker =>
          /\ wPc[muHolder] = "lockMap"
          /\ LocksHeldBy(muHolder) = {}
          /\ ENABLED RegisterLock(muHolder)
    /\ \A w \in Workers :
          /\ wPc[w] \in {"lockKey", "clone", "unlock"} => muHolder # w
          /\ (wPc[w] = "lockKey" /\ lockOwner[repoLockKey(wRepo[w])] = NoWorker)
                => ENABLED AcquireRepoLock(w)

C15_NewKeyDuringClone ==
    \E w1, w2 \in Workers :
        /\ wPc[w1] = "clone" /\ lockOwner[repoLockKey(wRepo[w1])] = w1
        /\ wPc[w2] = "lockMap" /\ muHolder = w2
        /\ repoLockKey(wRepo[w2]) # repoLockKey(wRepo[w1])
        /\ repoLockKey(wRepo[w2]) \notin locks

\* a token is cached and the current time is earlier than its expiry minus
\* the refresh threshold
C16_Fresh == accessTok # NoToken /\ tokNow < expiresAt - tokenRefreshThreshold

\* C16: whenever a call looks at the cache (in Token, and again under the
\* lock in refreshToken) and finds a token whose expiry minus the 2-minute
\* threshold is still ahead, it returns that token and expiry and sends no
\* exchange request; whenever it finds no token, or one within the
\* threshold of its expiry, it goes on to the exchange, and the exchange
\* sends one request.
C16_CachedOrExchange ==
    [][\A c \in Callers :
        /\ (cPc[c] \in {"check", "refresh"} /\ cPc'[c] # cPc[c] /\ C16_Fresh)
              => /\ cPc'[c] = "done"
                 /\ cResult'[c] = [tok |-> accessTok, exp |-> expiresAt, err |-> "none"]
                 /\ exchanges' = exchanges
                 /\ accessTok' = accessTok /\ expiresAt' = expiresAt
        /\ (cPc[c] = "check" /\ cPc'[c] # cPc[c] /\ ~C16_Fresh)
              => cPc'[c] = "refresh" /\ exchanges' = exchanges
        /\ (cPc[c] = "refresh" /\ cPc'[c] # cPc[c] /\ ~C16_Fresh)
              => cPc'[c] = "exchange" /\ exchanges' = exchanges
        /\ (cPc[c] = "exchange" /\ cPc'[c] # cPc[c])
              => exchanges' = exchanges + 1]_vars

\* one exchange served two calls, and a later call, made within the
\* threshold of that token's expiry, exchanged again
C16_ServedFromCacheThenRefreshed ==
    \E c1, c2, c3 \in Callers :
        /\ c1 # c2
        /\ cResult[c1].err = "none" /\ cResult[c1].tok = 1
        /\ cResult[c2].err = "none" /\ cResult[c2].tok = 1
        /\ cResult[c3].err = "none" /\ cResult[c3].tok = 2
        /\ exchanges = 2

\* the ways an exchange fails
C17_Failures == {"transport", "status", "decode", "missingToken", "badExpiry"}

\* C17: an exchange that fails in any of these ways makes Token return an
\* error and the empty token, leaves the cached token and expiry as they
\* were and releases p.mu; a call that then reaches refreshToken is not
\* blocked and goes on to send an exchange request of its own.
C17_FailedExchangeLeavesCache ==
    /\ [][\A c \in Callers :
            (cPc[c] = "exchange" /\ cPc'[c] = "done" /\ cResult'[c].err # "none")
               => /\ cResult'[c].err \in C17_Failures
                  /\ cResult'[c].tok = NoToken
                  /\ accessTok' = accessTok /\ expiresAt' = expiresAt
                  /\ tokMu = c /\ tokMu' = NoCaller]_vars
    /\ [](\A c \in Callers :
            (cPc[c] = "done" /\ cResult[c].err # "none")
               => /\ tokMu # c
                  /\ \A c2 \in Callers :
                        (cPc[c2] = "refresh" /\ tokMu = NoCaller /\ ~C16_Fresh)
                           => ENABLED (RefreshLock(c2) /\ cPc'[c2] = "exchange"))

\* a call failed in its exchange, and a later call exchanged again and got
\* a token
C17_RetriedAfterFailure ==
    \E c1, c2 \in Callers :
        /\ cPc[c1] = "done" /\ cResult[c1].err \in C17_Failures
        /\ cResult[c1].tok = NoToken
        /\ cPc[c2] = "done" /\ cResult[c2].err = "none" /\ cResult[c2].tok = 2
        /\ accessTok = 2 /\ exchanges = 2

\* position of the last "/" of s, 0 when there is none
C18_LastSlash(s) ==
    IF \E i \in 1..Len(s) : s[i] = "/"
    THEN CHOOSE i \in 1..Len(s) : s[i] = "/" /\ \A j \in (i + 1)..Len(s) : s[j] # "/"
    ELSE 0

\* C18: SplitFullName returns as repo the segment after the last "/" of the
\* full name and as vendor everything before that "/"; the vendor is empty
\* and the repo the whole name when the name holds no "/"; for a name that
\* holds a "/", vendor + "/" + repo is the name again.
C18_SplitAtLastSlash ==
    sfPc = "returned" =>
        LET i == C18_LastSlash(fullName)
        IN  IF i = 0
            THEN sfVendor = EmptyString /\ sfRepo = fullName
            ELSE /\ sfRepo = SubSeq(fullName, i + 1, Len(fullName))
                 /\ sfVendor = SubSeq(fullName, 1, i - 1)
                 /\ sfVendor \o <<"/">> \o sfRepo = fullName

\* a nested namespace has been split
C18_NestedNamespaceSplit ==
    /\ sfPc = "returned"
    /\ fullName = <<"a", "/", "b", "/", "a">>
    /\ sfVendor = <<"a", "/", "b">>
    /\ sfRepo = <<"a">>

\* C19: in dry-run mode ProcessRepo makes no git.CloneRepository call and
\* no PostRepository call, whatever the repository and whatever the fetch
\* of its publiccode.yml answered: it returns right after the fetch.
C19_DryRunNoCloneNoPost ==
    DryRun => /\ prClones = 0
              /\ prPosts = <<>>
              /\ prPc \in {"ensure", "returned"}

\* a dry run has processed a repository whose publiccode.yml was found
C19_DryRunProcessed ==
    /\ DryRun
    /\ prPc = "returned"
    /\ prFetch.code = 200 /\ ~prFetch.err
    /\ prHasPubliccode
    /\ prRepository.CanonicalURL # EmptyString

\* the sentinel error the tests of withAuthToken compare with
C20_errAnonymousGitLabAuth == "errAnonymousGitLabAuth"

\* C20: withAuthToken for host gitlab.com returns, when GITLAB_TOKEN is
\* unset, no auth method and an error that errors.Is matches with
\* errAnonymousGitLabAuth; when GITLAB_TOKEN is set, basic auth with the
\* username "oauth2" and the token as password, and no error.
C20_GitLabAuth ==
    (waPc = "returned" /\ hostname = "gitlab.com") =>
        IF envGitLabToken = EmptyString
        THEN waAuth = NilAuth /\ ErrorsIs(waErr, C20_errAnonymousGitLabAuth)
        ELSE waAuth = BasicAuth("oauth2", envGitLabToken) /\ waErr = NilError
\* the last path segment of a canonical URL, a trailing ".git" removed
C21_TitleFromURL(u) ==
    IF u.Path = <<>> THEN EmptyString ELSE <<u.Path[Len(u.Path)].base>>

\* C21: titleFromRepositoryName returns the last segment of the full name;
\* for an empty full name, the last path segment of the canonical URL
\* without a trailing ".git", and the empty string when that URL has no
\* path segment.
C21_TitleFromNameOrURL ==
    tPc = "returned" =>
        tTitle = IF tRepository.Name # <<>>
                 THEN <<tRepository.Name[Len(tRepository.Name)]>>
                 ELSE C21_TitleFromURL(tRepository.CanonicalURL)
\* the answer carries HTTP status 429, in the response or in the error
C22_Status429 ==
    \/ ~rlResp.nil /\ rlResp.StatusCode = 429
    \/ /\ rlErr.type = "ErrorResponse"
       /\ ~rlErr.Response.nil /\ rlErr.Response.StatusCode = 429

\* the headers gitlabRateLimitReset reads for a 429 answer
C22_Headers ==
    IF ~rlResp.nil /\ rlResp.StatusCode = 429 THEN rlResp.Header
    ELSE rlErr.Response.Header

C23_ProcessingAfterClose ==
    \A w \in Workers :
        wRepo[w] # NoRepo => (closeCount = 1 /\ \A p \in Publishers : pubPc[p] = "done")

\* the state of a run: 1 Scanning, 2 Draining (all publisher tasks finished,
\* shared channel closed), 3 Processing (shared channel emptied, the workers
\* finish what they hold), 4 Done
C23_Phase ==
    IF mainPc = "returned" THEN 4
    ELSE IF reposChanClosed THEN 3
    ELSE IF closeCount > 0 THEN 2
    ELSE 1

\* C23 as amended: a run moves through Scanning, Draining, Processing, Done
\* in that order, one state at a time; the shared channel is closed only
\* once all publisher tasks have finished, the workers stop only once the
\* closed channel has been emptied, and the run is done only once every
\* worker has stopped and every repository sent has been processed.
C23_PhasesInOrder ==
    /\ [][C23_Phase' \in {C23_Phase, C23_Phase + 1}]_vars
    /\ [](C23_Phase >= 2 => \A p \in Publishers : pubPc[p] = "done")
    /\ [](C23_Phase >= 3 => (closeCount = 1 /\ repositories = <<>> /\ forwardRepo = NoRepo))
    /\ [](\A w \in Workers : wPc[w] = "exit" => C23_Phase >= 3)
    /\ [](C23_Phase = 4 =>
            /\ \A w \in Workers : wPc[w] = "exit"
            /\ \A r \in RepoIds : Sent(r) => processedCount[r] = 1)

\* the channel is closed and emptied, one worker has stopped and another is
\* still cloning the repository it received while publishers were scanning
C23_WorkersFinishAfterDrain ==
    /\ C23_Phase = 3
    /\ \E w1, w2 \in Workers : wPc[w1] = "exit" /\ wPc[w2] = "clone"
\* C24: lastCommitTimeWithRetry calls fetch() at most
\* maxGitLabRateLimitRetries + 1 times; when every fetch is answered with a
\* rate limit that carries a reset instant, it has returned a RateLimitError
\* naming the provider once that many calls are made.
C24_BoundedFetches ==
    /\ lcFetches <= maxGitLabRateLimitRetries + 1
    /\ (lcFetches = maxGitLabRateLimitRetries + 1 /\ lcRateLimited = lcFetches)
          => /\ lcPc = "done"
             /\ lcErr.type = "RateLimitError"
             /\ lcErr.Provider = lcProvider
\* C25: a GitHub API call of ScanRepo (Get, GetContents) that keeps being
\* answered with a primary or secondary rate limit is retried at most
\* maxGitLabRateLimitRetries times; after that ScanRepo has returned a
\* RateLimitError.
C25_GitHubRetriesBounded ==
    srProvider = "github" =>
        /\ srRateLimited <= maxGitLabRateLimitRetries + 1
        /\ srRateLimited = maxGitLabRateLimitRetries + 1
              => /\ srPc = "done"
                 /\ srErr.type = "RateLimitError"
\* C28: no scanner sends a Repository for a repository that its provider
\* reports as private or archived.
C28_NoPrivateOrArchivedSent ==
    \A i \in 1..Len(srSent) : ~srSent[i].Private /\ ~srSent[i].Archived

\* C29: for each provider's ScanRepo, when the lookup of publiccode.yml is
\* answered with "not found", ScanRepo returns nil having sent exactly one
\* Repository with an empty FileRawURL; when the lookup fails in another
\* way, ScanRepo returns an error having sent nothing.
C29_NotFoundIsNoError ==
    srPc = "done" =>
        /\ srLookup = "notFound"
              => /\ srErr = NilError
                 /\ Len(srSent) = 1
                 /\ srSent[1].FileRawURL = ""
        /\ srLookup \in {"otherStatus", "transport"}
              => /\ srErr # NilError
                 /\ srSent = <<>>
\* C26: GitHub ScanGroupOfRepos fetches no page of the listing more than
\* once, and when it returns nil it has fetched every page exactly once,
\* for an organization as well as for a user (the fallback listing).
C26_EveryPageOnce ==
    /\ \A p \in ListPages : sgFetched[p] <= 1
    /\ (sgPc = "done" /\ sgErr = NilError /\ sgListCalls > 0)
          => \A p \in 1..sgPages : sgFetched[p] = 1
\* C27: when the call of gitlabCallWithRateLimitRetry, or the fetch of
\* lastCommitTimeWithRetry, fails with an error that is no rate-limit
\* signal, the loop has returned that error: it does not wait, and it makes
\* no call after the failed one (the calls made are the rate-limited ones
\* before it and the failed one).
C27_NoRetryOnOtherError ==
    /\ \A g \in GitLabCalls :
          gErr[g] = OtherError
              => /\ gPc[g] = "done"
                 /\ gTimer[g] # "pending"
                 /\ gCalls[g] = gRateLimited[g] + 1
    /\ (lcLastErr # NilError /\ ~ErrorsAsRateLimitError(lcLastErr))
          => /\ lcPc = "done"
             /\ lcErr = lcLastErr
             /\ lcFetches = lcRateLimited + 1
             /\ lcSleeps <= lcRateLimited

\* a call that failed with another error after a rate-limited first attempt
C27_FailedAfterRateLimit ==
    \E g \in GitLabCalls :
        /\ gErr[g] = OtherError
        /\ gPc[g] = "done"
        /\ gRateLimited[g] >= 1
C35_DistinctPathsDistinctKeys ==
    \A w1, w2 \in Workers :
        (/\ wRepo[w1] # NoRepo /\ wRepo[w2] # NoRepo
         /\ MirrorPath(wRepo[w1]) # MirrorPath(wRepo[w2]))
            => repoLockKey(wRepo[w1]) # repoLockKey(wRepo[w2])
\* C34: while a worker is inside the clone/fetch of a repository, no other
\* worker reads the mirror directory of that repository (activity
\* computation, README read, local last-commit lookup).
C34_NoReadDuringClone ==
    \A w1, w2 \in Workers :
        (w1 # w2 /\ wPc[w1] = "clone" /\ wPc[w2] = "activity")
            => MirrorPath(wRepo[w1]) # MirrorPath(wRepo[w2])
\* C31: git.PlainClone is called only for a mirror directory that does not
\* exist, a fetch only for one that exists; and when two workers process
\* the same repository at most one of them clones: PlainClone is called at
\* most once for a mirror directory.
C31_AtMostOneClones ==
    /\ \A c \in CloneCallers :
          /\ mcPc[c] = "clone" => MirrorPath(mcRepo[c]) \notin mirrorDirs
          /\ mcPc[c] = "fetch" => MirrorPath(mcRepo[c]) \in mirrorDirs
    /\ \A p \in MirrorPaths : cloneAttempts[p] <= 1

\* C31 (amended): git.PlainClone is called only for a mirror directory that
\* does not exist, a fetch only for one that exists; a mirror directory is
\* cloned with success at most once, never when an earlier run left it, and
\* a worker that enters CloneRepository after a successful clone of its
\* repository fetches.
C31_AtMostOneCloneSucceeds ==
    /\ \A c \in CloneCallers :
          /\ mcPc[c] = "clone" => MirrorPath(mcRepo[c]) \notin mirrorDirs
          /\ mcPc[c] = "fetch" => MirrorPath(mcRepo[c]) \in mirrorDirs
          /\ (mcPc[c] = "clone" \/ mcResult[c] \in {"cloned", "cloneFailed"})
                => /\ MirrorPath(mcRepo[c]) \notin mirrorsAtStart
                   /\ (mcPc[c] = "clone" => clonesDone[MirrorPath(mcRepo[c])] = 0)
    /\ \A p \in MirrorPaths :
          /\ clonesDone[p] <= 1
          /\ clonesDone[p] = 1 => p \in mirrorDirs

\* two workers with the same repository: one has cloned, the other fetched
C31_OneClonedOtherFetched ==
    \E c1, c2 \in CloneCallers :
        /\ c1 # c2
        /\ mcRepo[c1] = mcRepo[c2]
        /\ mcResult[c1] = "cloned"
        /\ mcResult[c2] = "fetched"
\* the first paragraph of a README: blank and skippable lines are dropped
\* until the paragraph starts, the paragraph ends at the next blank line
RECURSIVE C33_FirstParagraph(_, _, _)
C33_FirstParagraph(lines, i, paragraph) ==
    IF i > Len(lines) THEN paragraph
    ELSE IF lines[i] = BlankLine
         THEN IF Len(paragraph) > 0 THEN paragraph
              ELSE C33_FirstParagraph(lines, i + 1, paragraph)
         ELSE IF Len(paragraph) = 0 /\ isReadmeSkippableLine(lines[i])
              THEN C33_FirstParagraph(lines, i + 1, paragraph)
              ELSE C33_FirstParagraph(lines, i + 1, Append(paragraph, lines[i]))

\* C33: descriptionFromReadme returns the first paragraph of the README that
\* is not made of heading, image, link or badge lines, its lines joined with
\* single spaces: leading blank and skippable lines are dropped and the
\* text ends at the first blank line after the paragraph has started.
C33_FirstParagraphJoined ==
    dfPc = "returned"
        => dfDescription = JoinSpace(C33_FirstParagraph(readmeLines, 1, <<>>))
\* C32: when the run is no dry run, one call of ProcessRepo leads to exactly
\* one PostRepository call, made after the clone/fetch and activity step:
\* no post before ProcessRepo has gone through that step, exactly one when
\* it returns, whatever the fetch of publiccode.yml, the clone, the activity
\* computation, the README read and the last-commit lookups answered.
C32_PostedExactlyOnce ==
    ~DryRun =>
        /\ Len(prPosts) <= 1
        /\ prPc = "returned" <=> Len(prPosts) = 1
        /\ prPc \in {"ensure", "clone"} => prPosts = <<>>
        /\ Len(prPosts) = 1 =>
              (prClones = 1 \/ prRepository.CanonicalURL = EmptyString)

\* a repository posted although the file was not reachable and the clone
\* step and the local last-commit lookup failed
C32_PostedAfterFailures ==
    /\ ~DryRun
    /\ prPc = "returned"
    /\ Len(prPosts) = 1
    /\ prFetch.code = 500
    /\ ~prHasPubliccode
    /\ prCloneErr
    /\ prClones = 1
    /\ prGitLast.err # "none"
    /\ prApiLast.err # "none"
\* C36: a GitLab API slot is held only while the call itself runs: the
\* slots in use are exactly the calls in flight, so a caller that has
\* returned, or that waits out a rate-limit backoff, holds none; and a
\* caller about to take a slot can take it whenever fewer than
\* defaultGitLabAPIConcurrency calls are in flight, whoever is backing off.
C36_SlotHeldOnlyInCall ==
    /\ gitlabAPILimiter = GitLabCallsInFlight
    /\ \A g \in GitLabCalls :
          (gPc[g] = "acquire" /\ GitLabCallsInFlight < defaultGitLabAPIConcurrency)
              => ENABLED AcquireSlot(g)

\* one caller waits out a backoff while another one holds the last slot
C36_BackoffWhileSlotsFull ==
    \E g1, g2 \in GitLabCalls :
        /\ gPc[g1] = "wait" /\ gTimer[g1] = "pending"
        /\ gPc[g2] = "inCall"
        /\ gitlabAPILimiter = defaultGitLabAPIConcurrency

\* C37: when the context is cancelled while gitlabCallWithRateLimitRetry
\* waits for a free GitLab API slot, the call is not issued: the loop
\* returns the context's error without entering the call.
C37_NoCallAfterCancelledWait ==
    [][\A g \in GitLabCalls :
          (gPc[g] = "acquire" /\ gCtx[g] # "active")
              => /\ gPc'[g] \in {"acquire", "done"}
                 /\ gCalls'[g] = gCalls[g]
                 /\ gPc'[g] = "done" => gErr'[g] = ContextError(gCtx[g])]_vars
\* the recorded reset only moves to a later instant, or is cleared once it
\* has passed
C38_ResetMovesLater ==
    \/ ghCommitReset' = ghCommitReset
    \/ ghCommitReset' > ghCommitReset
    \/ (ghCommitReset' = ZeroTime /\ ~(ghNow < ghCommitReset))

\* C38: once a reset instant R is recorded in githubCommitRateLimit, no
\* worker sends a ListCommits request before R; the recorded instant only
\* moves to a later instant while it is pending and is cleared once it has
\* passed.
C38_NoRequestBeforeReset ==
    /\ [](\A w \in CommitWorkers : ~lwEarly[w])
    /\ [][C38_ResetMovesLater]_vars

\* C38 (amended): once a reset instant R is recorded, no worker that reads
\* the shared state after the recording sends a ListCommits request before
\* R: a request sent before R comes from a worker that had passed the check
\* before R was recorded, and a check made while R is pending returns a
\* RateLimitError with R; the recorded instant only moves to a later instant
\* while it is pending and is cleared once it has passed.
C38_NoRequestAfterSeeingReset ==
    /\ [](\A w \in CommitWorkers : lwEarly[w] => lwRecordedLater[w])
    /\ [][\A w \in CommitWorkers :
            (LwCheck(w) /\ ghCommitReset # ZeroTime /\ ghNow < ghCommitReset)
                => /\ lwPc'[w] = "idle"
                   /\ lwErr'[w] = RateLimitError("github", ghCommitReset)]_vars
    /\ [][\A w \in CommitWorkers :
            (LwCheck(w) /\ ghCommitReset # ZeroTime /\ ~(ghNow < ghCommitReset))
                => ghCommitReset' = ZeroTime]_vars
    /\ [][C38_ResetMovesLater]_vars

\* a worker is turned away by a reset another worker recorded, which was
\* moved to a later instant before
C38_TurnedAway ==
    \E w1, w2 \in CommitWorkers :
        /\ w1 # w2
        /\ lwPc[w1] = "idle" /\ lwErr[w1] = RateLimitError("github", ghCommitReset)
        /\ lwErr[w2].type = "RateLimitError" /\ lwErr[w2].Reset < ghCommitReset
        /\ ghNow < ghCommitReset
\* C39: one GitLab group scan sends each project of the group tree (the
\* group and all of its descendant subgroups) onto the shared channel at
\* most once.
C39_EachProjectAtMostOnce ==
    \A p \in GitLabProjects : agpSent[p] <= 1
====
